---- MODULE Spec2Model ----
(***************************************************************************)
(* GeoCommander MCP server: the chat turn of ChatAssistant as driven by    *)
(* ConnectionManager.handle_message (server.py), the tool-call dispatch of *)
(* LLMBridge.process_tool_calls (bridge.py) and the access-token cache of  *)
(* VertexAIAuth.get_access_token (llm_providers.py).                       *)
(*                                                                         *)
(* Python values are encoded as records of one shape per kind; a missing   *)
(* dictionary key is Absent and Python's None is None.                     *)
(***************************************************************************)
EXTENDS Integers, Sequences, FiniteSets, TLC

\* ------------------------------------------------------------------ bounds
\* user_command messages handled in one behaviour
MaxTurns == 2
\* tool calls in one process_tool_calls request
MaxCalls == 2
\* last instant of the wall clock seen by get_access_token
MaxTime == 4
\* tools the tool provider lists
MaxTools == 2
\* parts of a Vertex candidate
MaxParts == 2
\* operations on the loaded ProviderManager
MaxOps == 2
\* rows of chat_logs
MaxRows == 3
MaxConnects == 3

\* -------------------------------------------------------- program constants
\* ChatAssistant.max_history (server.py:531)
max_history == 10
\* safety margin before expiry in get_access_token (llm_providers.py:194)
ExpiryMargin == 60
\* default of data.get("expires_in", 3600) (llm_providers.py:212)
DefaultExpiresIn == 3600

\* ------------------------------------------------------------ Python values
Absent == "<absent>"
None == "<None>"

\* WebSocket connections (client sessions)
WS == {"ws1", "ws2"}
\* owner of turns stored before the behaviour starts (a connection closed since)
PriorSession == "ws0"

Inputs == {"u1", "u2"}
Modes == {"command", "conversation"}

\* tool_call values a model reply can carry
TCAbsent == [t |-> "absent", action |-> Absent, arguments |-> Absent]
TCNone == [t |-> "none", action |-> Absent, arguments |-> Absent]
TCCall == [t |-> "map", action |-> "fly_to", arguments |-> "{x:1}"]
TCNoAction == [t |-> "map", action |-> Absent, arguments |-> "{}"]
TCString == [t |-> "str", action |-> Absent, arguments |-> Absent]

\* Python truthiness of a tool_call value (None is falsy, the others here truthy)
Truthy(tc) == tc.t \notin {"none", "absent"}

\* texts the plain chat call can return
RawObjCall == "{\"message\":\"m1\",\"tool_call\":{\"action\":\"fly_to\",\"arguments\":{\"x\":1}}}"
RawObjPlain == "{\"thinking\":\"t1\",\"message\":\"m1\"}"
RawObjNoMsg == "{\"tool_call\":null}"
RawObjBadCall == "{\"message\":\"m1\",\"tool_call\":{\"arguments\":{}}}"
RawObjStrCall == "{\"message\":\"m1\",\"tool_call\":\"fly_to\"}"
RawArray == "[]"
RawText == "hello"
RawTexts == {RawObjCall, RawObjPlain, RawObjNoMsg, RawObjBadCall, RawObjStrCall,
             RawArray, RawText}

\* what llm_client.chat does: return a text, return None (a null content), or raise
ClientOutcomes == [kind : {"text"}, raw : RawTexts]
                  \cup {[kind |-> "none", raw |-> None], [kind |-> "raise", raw |-> None]}

Parsed(t, message, tool_call, thinking) ==
    [ok |-> TRUE, t |-> t, message |-> message, tool_call |-> tool_call, thinking |-> thinking]

\* json.loads on the texts above: ok = FALSE is JSONDecodeError, t is the type of
\* the decoded value, and for a dict each key is its value or Absent
json_loads(raw) ==
    CASE raw = RawObjCall -> Parsed("dict", "m1", TCCall, Absent)
      [] raw = RawObjPlain -> Parsed("dict", "m1", TCAbsent, "t1")
      [] raw = RawObjNoMsg -> Parsed("dict", Absent, TCNone, Absent)
      [] raw = RawObjBadCall -> Parsed("dict", "m1", TCNoAction, Absent)
      [] raw = RawObjStrCall -> Parsed("dict", "m1", TCString, Absent)
      [] raw = RawArray -> Parsed("list", Absent, TCAbsent, Absent)
      [] OTHER -> [ok |-> FALSE, t |-> Absent, message |-> Absent,
                   tool_call |-> TCAbsent, thinking |-> Absent]

\* dict.get(key, default) on a decoded dict, for a text entry and for tool_call
Get(value, default) == IF value = Absent THEN default ELSE value
GetTC(tc) == IF tc.t = "absent" THEN TCNone ELSE tc

\* -------------------------------------------------- JSON argument mappings
\* an arguments mapping is a dict: its items in order, keys distinct; a value
\* is named by its Python repr
ArgKeys == {"x", "y"}
PyValues == {"1", "'s'", "True", "None"}
ArgMaps ==
    {<<>>}
    \cup {<<<<k, v>>>> : k \in ArgKeys, v \in PyValues}
    \cup {<<<<ks[1], v1>>, <<ks[2], v2>>>> :
            ks \in {<<"x", "y">>, <<"y", "x">>}, v1 \in PyValues, v2 \in PyValues}

\* a JSON text is its sequence of tokens
KeyToken(k) == IF k = "x" THEN "\"x\"" ELSE "\"y\""
\* the values written as str() writes them
DumpValueRepr(v) == v
\* the values as json.dumps writes them
DumpValue(v) ==
    CASE v = "1" -> "1"
      [] v = "'s'" -> "\"s\""
      [] v = "True" -> "true"
      [] OTHER -> "null"

\* json.dumps of a mapping
RECURSIVE DumpItems(_, _)
DumpItems(map, i) ==
    IF i > Len(map) THEN <<>>
    ELSE (IF i > 1 THEN <<",">> ELSE <<>>)
         \o <<KeyToken(map[i][1]), ":", DumpValue(map[i][2])>>
         \o DumpItems(map, i + 1)
json_dumps(map) == <<"{">> \o DumpItems(map, 1) \o <<"}">>

IsKeyToken(t) == t \in {"\"x\"", "\"y\""}
LoadKey(t) == IF t = "\"x\"" THEN "x" ELSE "y"
IsValueToken(t) == t \in {"1", "\"s\"", "true", "null"}
LoadValue(t) ==
    CASE t = "1" -> "1"
      [] t = "\"s\"" -> "'s'"
      [] t = "true" -> "True"
      [] OTHER -> "None"

\* d[k] = v on a dict: a key already there keeps its place
PutItem(map, k, v) ==
    IF \E j \in 1..Len(map) : map[j][1] = k
    THEN [j \in 1..Len(map) |-> IF map[j][1] = k THEN <<k, v>> ELSE map[j]]
    ELSE Append(map, <<k, v>>)

\* the items of a JSON object from token i on; ok = FALSE is JSONDecodeError
RECURSIVE LoadItems(_, _, _)
LoadItems(text, i, map) ==
    IF i + 2 > Len(text) - 1 THEN [ok |-> FALSE, map |-> <<>>]
    ELSE IF ~(IsKeyToken(text[i]) /\ text[i + 1] = ":" /\ IsValueToken(text[i + 2]))
    THEN [ok |-> FALSE, map |-> <<>>]
    ELSE LET next == PutItem(map, LoadKey(text[i]), LoadValue(text[i + 2]))
         IN  IF i + 3 = Len(text) THEN [ok |-> TRUE, map |-> next]
             ELSE IF text[i + 3] = "," THEN LoadItems(text, i + 4, next)
             ELSE [ok |-> FALSE, map |-> <<>>]

\* json.loads of the text of an object
json_loads_object(text) ==
    IF Len(text) < 2 \/ text[1] # "{" \/ text[Len(text)] # "}"
    THEN [ok |-> FALSE, map |-> <<>>]
    ELSE IF Len(text) = 2 THEN [ok |-> TRUE, map |-> <<>>]
    ELSE LoadItems(text, 2, <<>>)

\* ------------------------------------------------------------------- state
VARIABLES
    conversation_history, \* ChatAssistant.conversation_history
    log,                  \* every entry ever appended to the history, in order
    use_llm,              \* ChatAssistant.use_llm
    llm_client,           \* ChatAssistant.llm_client: None or a client
    active_connections,   \* ConnectionManager.active_connections
    pc,                   \* where each connection's handler is suspended
    turn,                 \* the user_command a connection is handling
    reply,                \* what ChatAssistant.chat returned for it
    outbox,               \* messages sent to the client for the current message
    nturns,               \* user_command messages handled so far
    ptc,                  \* the running LLMBridge.process_tool_calls call
    mcp_connected,        \* MCPClient.connected
    dispatched,           \* tool executions that reached the tool provider
    mcp_tools,            \* MCPClient.tools
    tools_cache,          \* LLMBridge._tools_cache
    resources_cache,      \* LLMBridge._resources_cache
    bcall,                \* the last tool-list or cache operation of the bridge
    rcall,                \* the running or last get_resource call
    hist,                 \* what the caches hold since the last clear_cache
    access_token,         \* VertexAIAuth.access_token
    token_expiry,         \* VertexAIAuth.token_expiry
    now,                  \* time.time()
    auth,                 \* the running get_access_token call
    relay,                \* the running or last /execute request
    pm,                   \* the ProviderManager: environment, providers, active
    tcall,                \* the last call_tool or execute_tool call
    mc,                   \* the MCPClient object, its exit stacks and the calls on it
    vauth,                \* the last VertexAIAuth or LLMClient construction
    llm,                  \* the last model call of an LLMClient
    db                    \* the chat_logs table and the last storage call

chatVars == <<conversation_history, log, use_llm, llm_client, active_connections,
              pc, turn, reply, outbox, nturns>>
cacheVars == <<mcp_tools, tools_cache, resources_cache, bcall, rcall, hist>>
bridgeVars == <<ptc, mcp_connected, dispatched, cacheVars>>
authVars == <<access_token, token_expiry, now, auth>>
relayVars == <<relay>>
providerVars == <<pm>>
toolVars == <<tcall, mc>>
clientVars == <<vauth, llm>>
storageVars == <<db>>
vars == <<chatVars, bridgeVars, authVars, relayVars, providerVars, toolVars, clientVars, storageVars>>

\* ------------------------------------------------------ ChatAssistant.chat
\* one stored turn; sess and seq record who appended it and its position in log
Entry(role, content, sess, seq) ==
    [role |-> role, content |-> content, sess |-> sess, seq |-> seq]

\* the dict chat returns; raised = TRUE stands for an exception leaving chat
Reply(message, tool_call, thinking, llm_raw) ==
    [raised |-> FALSE, message |-> message, tool_call |-> tool_call,
     thinking |-> thinking, llm_raw |-> llm_raw]
Raised == [raised |-> TRUE, message |-> Absent, tool_call |-> TCAbsent,
           thinking |-> Absent, llm_raw |-> Absent]
NoReply == [raised |-> FALSE, message |-> Absent, tool_call |-> TCAbsent,
            thinking |-> Absent, llm_raw |-> Absent]

ServiceUnavailable == Reply("AI service unavailable", TCNone, Absent, Absent)
ServiceNotEnabled == Reply("AI service not enabled", TCNone, Absent, Absent)

SystemPrompt(mode, thinking) ==
    IF mode = "command"
    THEN IF thinking THEN "COMMAND_PROMPT_THINKING" ELSE "COMMAND_PROMPT"
    ELSE "CONVERSATION_PROMPT"

\* the message list of _chat_with_llm
BuildMessages(history, system_prompt, mode, user_input, ws) ==
    <<Entry("system", system_prompt, ws, 0)>>
    \o (IF mode = "conversation" THEN history ELSE <<>>)
    \o <<Entry("user", user_input, ws, 0)>>

\* conversation_history[-max_history * 2:] when the list is longer than that
TruncateOldestKept(history) ==
    IF Len(history) > max_history * 2
    THEN SubSeq(history, 1, max_history * 2)
    ELSE history
Truncate(history) ==
    IF Len(history) > max_history * 2
    THEN SubSeq(history, Len(history) - max_history * 2 + 1, Len(history))
    ELSE history

\* whether _chat_with_llm saves the turn
SavesHistoryAlways(mode) == TRUE
SavesHistory(mode) == mode = "conversation"

\* the try block of _chat_with_llm from the model's answer on: exc is the
\* exception that ends it ("none": it returns ret), appended the entries it
\* appended to the history before that
TryBody(history, user_input, mode, outcome, ws, seq) ==
    LET r == json_loads(outcome.raw)
        user == Entry("user", user_input, ws, seq)
        assistant == Entry("assistant", Get(r.message, ""), ws, seq + 1)
    IN  IF outcome.kind = "raise"
        THEN [exc |-> "Exception", history |-> history, appended |-> <<>>, ret |-> NoReply]
        ELSE IF outcome.kind = "none"
        THEN [exc |-> "TypeError", history |-> history, appended |-> <<>>, ret |-> NoReply]
        ELSE IF ~r.ok
        THEN [exc |-> "JSONDecodeError", history |-> history, appended |-> <<>>,
              ret |-> NoReply]
        ELSE IF r.t # "dict"
        THEN IF SavesHistory(mode)
             THEN [exc |-> "AttributeError", history |-> Append(history, user),
                   appended |-> <<user>>, ret |-> NoReply]
             ELSE [exc |-> "AttributeError", history |-> history, appended |-> <<>>,
                   ret |-> NoReply]
        ELSE [exc |-> "none",
              history |-> IF SavesHistory(mode)
                          THEN Truncate(history \o <<user, assistant>>)
                          ELSE history,
              appended |-> IF SavesHistory(mode) THEN <<user, assistant>> ELSE <<>>,
              ret |-> Reply(Get(r.message, "..."), GetTC(r.tool_call),
                            Get(r.thinking, None), outcome.raw)]

\* the except clauses of _chat_with_llm: what the function returns for an
\* exception of the try block (isNone: it returns None), or that it escapes
ExceptOnlyJSONDecodeError(exc, raw) ==
    IF exc = "JSONDecodeError"
    THEN [raised |-> FALSE, isNone |-> FALSE, ret |-> Reply(raw, TCNone, Absent, Absent)]
    ELSE [raised |-> TRUE, isNone |-> FALSE, ret |-> NoReply]
ExceptNoJSONDecodeError(exc, raw) ==
    [raised |-> FALSE, isNone |-> TRUE, ret |-> NoReply]
Except(exc, raw) ==
    IF exc = "JSONDecodeError"
    THEN [raised |-> FALSE, isNone |-> FALSE, ret |-> Reply(raw, TCNone, Absent, Absent)]
    ELSE [raised |-> FALSE, isNone |-> TRUE, ret |-> NoReply]

\* _chat_with_llm from the model's answer on
ChatWithLlm(history, user_input, mode, outcome, ws, seq) ==
    LET b == TryBody(history, user_input, mode, outcome, ws, seq)
        x == Except(b.exc, outcome.raw)
    IN  IF b.exc = "none"
        THEN [raised |-> FALSE, isNone |-> FALSE, ret |-> b.ret,
              history |-> b.history, appended |-> b.appended]
        ELSE [raised |-> x.raised, isNone |-> x.isNone, ret |-> x.ret,
              history |-> b.history, appended |-> b.appended]

\* what chat returns once _chat_with_llm has returned res
ChatReturnNoFallback(res) ==
    IF res.raised THEN Raised ELSE res.ret
ChatReturn(res) ==
    IF res.raised THEN Raised
    ELSE IF res.isNone THEN ServiceUnavailable
    ELSE res.ret

\* --------------------------------------------------------- ConnectionManager
\* outcome is what the model client did for the turn, once it has
NoOutcome == [kind |-> "pending", raw |-> None]
NoClient == [kind |-> "noclient", raw |-> None]
NoTurn == [user_input |-> Absent, mode |-> Absent, messages |-> <<>>, outcome |-> NoOutcome]

Sent(type, message, tool_call) ==
    [type |-> type, message |-> message, tool_call |-> tool_call]

Remove(seq, x) == SelectSeq(seq, LAMBDA y : y # x)

\* the payload send_chat_response attaches for a truthy mapping tool_call
ResponseToolCall(tc) ==
    [t |-> "map", action |-> Get(tc.action, None), arguments |-> Get(tc.arguments, "{}")]

\* websocket_endpoint accepts a client: connect, then the welcome message
Connect(ws) ==
    /\ pc[ws] = "closed"
    /\ active_connections' = Append(active_connections, ws)
    /\ pc' = [pc EXCEPT ![ws] = "idle"]
    /\ UNCHANGED <<conversation_history, log, use_llm, llm_client, turn, reply, outbox,
                   nturns>>
    /\ UNCHANGED <<bridgeVars, authVars, relayVars, providerVars, toolVars, clientVars, storageVars>>

\* receive_json raises WebSocketDisconnect: manager.disconnect
Disconnect(ws) ==
    /\ pc[ws] = "idle"
    /\ active_connections' = Remove(active_connections, ws)
    /\ pc' = [pc EXCEPT ![ws] = "closed"]
    /\ relay' = IF relay.pc = "sending" THEN [relay EXCEPT !.left = @ \cup {ws}] ELSE relay
    /\ UNCHANGED <<conversation_history, log, use_llm, llm_client, turn, reply, outbox, nturns>>
    /\ UNCHANGED <<bridgeVars, authVars, providerVars, toolVars, clientVars, storageVars>>

\* handle_message for {"type": "ping"}
Ping(ws) ==
    /\ pc[ws] = "idle"
    /\ outbox' = [outbox EXCEPT ![ws] = <<Sent("pong", Absent, TCAbsent)>>]
    /\ pc' = [pc EXCEPT ![ws] = "done"]
    /\ UNCHANGED <<conversation_history, log, use_llm, llm_client, active_connections,
                   turn, reply, nturns>>
    /\ UNCHANGED <<bridgeVars, authVars, relayVars, providerVars, toolVars, clientVars, storageVars>>

\* handle_message for a user_command, up to the first suspension: chat picks the
\* prompt and either answers at once (no model client) or builds the message list
\* and awaits llm_client.chat
StartTurn(ws, user_input, mode, thinking) ==
    /\ pc[ws] = "idle"
    /\ nturns < MaxTurns
    /\ nturns' = nturns + 1
    /\ IF use_llm /\ llm_client # None
       THEN /\ turn' = [turn EXCEPT ![ws] =
                  [user_input |-> user_input, mode |-> mode,
                   messages |-> BuildMessages(conversation_history,
                                              SystemPrompt(mode, thinking),
                                              mode, user_input, ws),
                   outcome |-> NoOutcome]]
            /\ pc' = [pc EXCEPT ![ws] = "llm"]
            /\ reply' = [reply EXCEPT ![ws] = NoReply]
       ELSE /\ turn' = [turn EXCEPT ![ws] =
                  [user_input |-> user_input, mode |-> mode, messages |-> <<>>,
                   outcome |-> NoClient]]
            /\ pc' = [pc EXCEPT ![ws] = "respond"]
            /\ reply' = [reply EXCEPT ![ws] = ServiceNotEnabled]
    /\ UNCHANGED <<conversation_history, log, use_llm, llm_client, active_connections,
                   outbox>>
    /\ UNCHANGED <<bridgeVars, authVars, relayVars, providerVars, toolVars, clientVars, storageVars>>

\* llm_client.chat completes with outcome; _chat_with_llm and chat run to their return
FinishTurn(ws, outcome) ==
    /\ pc[ws] = "llm"
    /\ LET res == ChatWithLlm(conversation_history, turn[ws].user_input, turn[ws].mode,
                              outcome, ws, Len(log) + 1)
       IN  /\ conversation_history' = res.history
           /\ log' = log \o res.appended
           /\ reply' = [reply EXCEPT ![ws] = ChatReturn(res)]
    /\ turn' = [turn EXCEPT ![ws].outcome = outcome]
    /\ pc' = [pc EXCEPT ![ws] = "respond"]
    /\ UNCHANGED <<use_llm, llm_client, active_connections, outbox, nturns>>
    /\ UNCHANGED <<bridgeVars, authVars, relayVars, providerVars, toolVars, clientVars, storageVars>>

\* an exception leaves handle_message: websocket_endpoint disconnects the client
CloseOnError(ws) ==
    /\ active_connections' = Remove(active_connections, ws)
    /\ pc' = [pc EXCEPT ![ws] = "closed"]
    /\ turn' = [turn EXCEPT ![ws] = NoTurn]
    /\ reply' = [reply EXCEPT ![ws] = NoReply]
    /\ outbox' = [outbox EXCEPT ![ws] = <<>>]

\* handle_message has returned: the endpoint's loop awaits the next message
AwaitMessage(ws) ==
    /\ pc[ws] = "done"
    /\ pc' = [pc EXCEPT ![ws] = "idle"]
    /\ turn' = [turn EXCEPT ![ws] = NoTurn]
    /\ reply' = [reply EXCEPT ![ws] = NoReply]
    /\ outbox' = [outbox EXCEPT ![ws] = <<>>]
    /\ UNCHANGED <<conversation_history, log, use_llm, llm_client, active_connections,
                   nturns>>
    /\ UNCHANGED <<bridgeVars, authVars, relayVars, providerVars, toolVars, clientVars, storageVars>>

\* handle_message sends the chat_response
Respond(ws) ==
    /\ pc[ws] = "respond"
    /\ LET r == reply[ws]
           tc == r.tool_call
       IN  IF r.raised \/ (Truthy(tc) /\ tc.t # "map")
           THEN CloseOnError(ws)
           ELSE /\ outbox' = [outbox EXCEPT ![ws] = Append(@,
                      Sent("chat_response", r.message,
                           IF Truthy(tc) THEN ResponseToolCall(tc) ELSE TCAbsent))]
                /\ IF Truthy(tc)
                   THEN /\ pc' = [pc EXCEPT ![ws] = "act"]
                        /\ UNCHANGED <<active_connections, turn, reply>>
                   ELSE /\ pc' = [pc EXCEPT ![ws] = "done"]
                        /\ UNCHANGED <<active_connections, turn, reply>>
    /\ UNCHANGED <<conversation_history, log, use_llm, llm_client, nturns>>
    /\ UNCHANGED <<bridgeVars, authVars, relayVars, providerVars, toolVars, clientVars, storageVars>>

\* handle_message sends the action of a truthy tool_call
Act(ws) ==
    /\ pc[ws] = "act"
    /\ LET tc == reply[ws].tool_call
       IN  IF tc.action = Absent
           THEN CloseOnError(ws)
           ELSE /\ outbox' = [outbox EXCEPT ![ws] = Append(@,
                      Sent("action", Absent,
                           [t |-> "map", action |-> tc.action,
                            arguments |-> Get(tc.arguments, "{}")]))]
                /\ pc' = [pc EXCEPT ![ws] = "done"]
                /\ UNCHANGED <<active_connections, turn, reply>>
    /\ UNCHANGED <<conversation_history, log, use_llm, llm_client, nturns>>
    /\ UNCHANGED <<bridgeVars, authVars, relayVars, providerVars, toolVars, clientVars, storageVars>>

\* ------------------------------------------- LLMBridge.process_tool_calls
\* argument values of a tool call: a mapping, or a string to be parsed
ArgDict == [kind |-> "dict", map |-> <<<<"x", "1">>>>, text |-> <<>>]
ArgJson == [kind |-> "str", map |-> <<>>, text |-> json_dumps(<<<<"x", "1">>>>)]
ArgBad == [kind |-> "str", map |-> <<>>, text |-> <<"x=1">>]
ArgValues == {ArgDict, ArgJson, ArgBad}
ToolNames == {"fly_to", "set_weather"}

\* the tool calls of a model response; the id is the position, as in call_<i>
ToolCallLists ==
    UNION {[1..n -> [name : ToolNames, arguments : ArgValues]] : n \in 0..MaxCalls}

\* arguments after the isinstance(args, str) / json.loads step
ParseArguments(args) ==
    IF args.kind = "str"
    THEN IF json_loads_object(args.text).ok THEN json_loads_object(args.text).map ELSE <<>>
    ELSE args.map

\* what MCPClient.call_tool can return: a mapping with or without success and
\* error entries (an error entry may hold a message or null), or a decoded JSON
\* value that is no mapping
ToolResults ==
    [t : {"dict"}, success : {Absent, "True", "False"}, error : {Absent, None, "boom"}]
    \cup {[t |-> "list", success |-> Absent, error |-> Absent]}
NotConnectedResult == [t |-> "dict", success |-> "False", error |-> "MCP not connected"]
\* ToolCall.result left at None
NoResult == [t |-> "none", success |-> Absent, error |-> Absent]

\* result.get("success", True) and "error" not in result
IsSuccessIgnoringError(result) == result.success # "False"
IsSuccess(result) == result.success # "False" /\ result.error = Absent

\* the ToolCall record of one executed call
ToolCallRecord(id, name, arguments, result) ==
    IF IsSuccess(result)
    THEN [id |-> id, name |-> name, arguments |-> arguments, status |-> "success",
          result |-> result, error |-> None]
    ELSE [id |-> id, name |-> name, arguments |-> arguments, status |-> "error",
          result |-> NoResult, error |-> Get(result.error, "Unknown error")]

NoPtc == [pc |-> "idle", calls |-> <<>>, i |-> 1, results |-> <<>>]

\* how many of the calls the loop of process_tool_calls goes through
CallsToRunFirstOnly(calls) == IF Len(calls) > 0 THEN 1 ELSE 0
CallsToRun(calls) == Len(calls)

\* the loop of process_tool_calls from the top of iteration p.i to its next
\* suspension: while the tool provider is not connected execute_tool answers at
\* once and the loop goes on; when it is connected the call is dispatched and
\* the loop awaits its result
RECURSIVE RunLoop(_, _, _)
RunLoop(p, connected, sent) ==
    IF p.i > CallsToRun(p.calls)
    THEN [ptc |-> [p EXCEPT !.pc = "returned"], dispatched |-> sent]
    ELSE LET tc == p.calls[p.i]
             args == ParseArguments(tc.arguments)
         IN  IF connected
             THEN [ptc |-> [p EXCEPT !.pc = "awaiting"],
                   dispatched |-> Append(sent, [id |-> p.i, name |-> tc.name,
                                                arguments |-> args])]
             ELSE RunLoop([p EXCEPT !.i = p.i + 1,
                                    !.results = Append(p.results,
                                        ToolCallRecord(p.i, tc.name, args,
                                                       NotConnectedResult))],
                          connected, sent)

\* process_tool_calls(tool_calls) is called
ProcessToolCalls(calls) ==
    /\ ptc.pc = "idle"
    /\ LET run == RunLoop([pc |-> "running", calls |-> calls, i |-> 1, results |-> <<>>],
                          mcp_connected, <<>>)
       IN  /\ ptc' = run.ptc
           /\ dispatched' = run.dispatched
    /\ UNCHANGED <<mcp_connected, cacheVars, chatVars,
                   authVars, relayVars, providerVars, toolVars, clientVars, storageVars>>

\* the dispatched call_tool returns result: the record is appended and the loop
\* goes on; a result that is no mapping makes result.get raise out of the loop
ToolReturns(result) ==
    /\ ptc.pc = "awaiting"
    /\ IF result.t # "dict"
       THEN /\ ptc' = [ptc EXCEPT !.pc = "raised"]
            /\ UNCHANGED dispatched
       ELSE LET tc == ptc.calls[ptc.i]
                rec == ToolCallRecord(ptc.i, tc.name, ParseArguments(tc.arguments), result)
                run == RunLoop([ptc EXCEPT !.pc = "running", !.i = ptc.i + 1,
                                           !.results = Append(ptc.results, rec)],
                               mcp_connected, dispatched)
            IN  /\ ptc' = run.ptc
                /\ dispatched' = run.dispatched
    /\ UNCHANGED <<mcp_connected, cacheVars, chatVars,
                   authVars, relayVars, providerVars, toolVars, clientVars, storageVars>>

\* process_tool_calls has ended: its caller takes the list, or the exception
TakeResults ==
    /\ ptc.pc \in {"returned", "raised"}
    /\ ptc' = NoPtc
    /\ dispatched' = <<>>
    /\ UNCHANGED <<mcp_connected, cacheVars, chatVars,
                   authVars, relayVars, providerVars, toolVars, clientVars, storageVars>>

\* ------------------------------------------------------------- MCPClient
\* tool definitions the tool provider can list
ToolDefs ==
    {[name |-> "fly_to", description |-> "d_fly_to", input_schema |-> "s_fly_to"],
     [name |-> "fly_to_location", description |-> "d_fly_to_location",
      input_schema |-> "s_fly_to_location"],
     [name |-> "set_weather", description |-> "d_set_weather",
      input_schema |-> "s_set_weather"]}

\* the tool lists _load_tools can store; the empty one also when list_tools fails
ToolLists == UNION {[1..n -> ToolDefs] : n \in 0..MaxTools}

\* the tool list of the running tool provider where its content does not matter
DefaultTools == <<>>

\* --------------------------------------- LLMBridge tool list and caches
EXCLUDED_TOOLS_FOR_FC ==
    {"fly_to_location", "add_marker_at_location", "switch_basemap_by_name",
     "set_weather_by_name", "set_time_by_name"}

\* mcp_tool.name in self.EXCLUDED_TOOLS_FOR_FC
IsExcludedNever(name) == FALSE
IsExcluded(name) == name \in EXCLUDED_TOOLS_FOR_FC

\* one entry of the OpenAI tools format / of the Gemini functionDeclarations
OpenaiTool(mcp_tool) ==
    [type |-> "function",
     function |-> [name |-> mcp_tool.name, description |-> mcp_tool.description,
                   parameters |-> mcp_tool.input_schema]]
GeminiTool(mcp_tool) ==
    [name |-> mcp_tool.name, description |-> mcp_tool.description,
     parameters |-> mcp_tool.input_schema]

\* the loop of get_tools_for_openai over mcp_client.tools from position i
RECURSIVE BuildOpenaiTools(_, _, _)
BuildOpenaiTools(tools, i, acc) ==
    IF i > Len(tools) THEN acc
    ELSE IF IsExcluded(tools[i].name)
    THEN BuildOpenaiTools(tools, i + 1, acc)
    ELSE BuildOpenaiTools(tools, i + 1, Append(acc, OpenaiTool(tools[i])))

\* the loop of get_tools_for_gemini
BuildGeminiTools(tools) == [i \in 1..Len(tools) |-> GeminiTool(tools[i])]

\* _tools_cache: None, or the cached list
NoCache == [set |-> FALSE, list |-> <<>>]
Cached(list) == [set |-> TRUE, list |-> list]

\* resource URIs and the texts read_resource can return for them (None: nothing
\* was read)
URIs == {"geo://locations", "geo://basemaps"}
ContentEmpty == ""
ContentA == "{\"a\":1}"
ContentText == "plain text"
Contents == {None, ContentEmpty, ContentA, ContentText}

\* json.loads on a resource text
ParseResource(content) ==
    CASE content = ContentA -> [ok |-> TRUE, data |-> "{a:1}"]
      [] OTHER -> [ok |-> FALSE, data |-> Absent]

NoResources == [uri \in URIs |-> Absent]

\* the tool-list or cache operation that has just run (none once another step
\* ran): the cache, the client's tools and connection it found, whether it read
\* the client's tools, and the list it returned
NoBcall == [op |-> "none", s_cache |-> NoCache, s_tools |-> <<>>, connected |-> FALSE,
            read |-> FALSE, ret |-> <<>>]

\* the get_resource call that is reading or has just returned: found says where its value came from, contacted whether
\* it asked the provider, s_provided what the provider had returned for the uri
\* before it, cleared whether clear_cache ran while it was reading
NoRcall == [pc |-> "idle", uri |-> Absent, ret |-> None, found |-> Absent,
            contacted |-> FALSE, s_provided |-> Absent, cleared |-> FALSE]

\* the caller of a get_resource call that has returned goes on
Returned(call) == IF call.pc = "returned" THEN NoRcall ELSE call

\* whether the tool cache was built under the session now established
UnderAfterConnect(under) == IF under = "none" THEN "none" ELSE "earlier"

\* MCPClient.connect succeeds: a new session, its tools loaded
McpConnect(tools) ==
    /\ ~mcp_connected
    /\ mcp_connected' = TRUE
    /\ mcp_tools' = tools
    /\ hist' = [hist EXCEPT !.under = UnderAfterConnect(hist.under)]
    /\ bcall' = NoBcall
    /\ rcall' = Returned(rcall)
    /\ UNCHANGED <<ptc, dispatched, tools_cache, resources_cache, chatVars,
                   authVars, relayVars, providerVars, toolVars, clientVars, storageVars>>

\* disconnect resetting the bridge's tool cache with the client's fields
ToolsCacheDroppedOnDisconnect(cache) == NoCache
\* what MCPClient.disconnect leaves of the bridge's tool cache: it resets the
\* client's own session, tools and flag and nothing else
ToolsCacheAfterDisconnect(cache) == cache

\* MCPClient.disconnect
McpDisconnect ==
    /\ mcp_connected
    /\ mcp_connected' = FALSE
    /\ mcp_tools' = <<>>
    /\ tools_cache' = ToolsCacheAfterDisconnect(tools_cache)
    /\ bcall' = NoBcall
    /\ rcall' = Returned(rcall)
    /\ UNCHANGED <<ptc, dispatched, resources_cache, hist, chatVars,
                   authVars, relayVars, providerVars, toolVars, clientVars, storageVars>>

\* since the last clear_cache: under which session the tool cache was built,
\* how often (counted up to 2) the tool list was built, and the value the
\* provider last returned for each uri
NoHist == [under |-> "none", builds |-> 0, provided |-> NoResources]

\* get_tools_for_openai caches the list it returns when not connected
OpenaiNotConnectedCaches == Cached(<<>>)
OpenaiNotConnected == NoCache

\* LLMBridge.get_tools_for_openai
GetToolsForOpenai ==
    /\ LET call == [NoBcall EXCEPT !.op = "openai", !.s_cache = tools_cache,
                                   !.s_tools = mcp_tools, !.connected = mcp_connected]
           built == BuildOpenaiTools(mcp_tools, 1, <<>>)
       IN  IF tools_cache.set
           THEN /\ bcall' = [call EXCEPT !.ret = tools_cache.list]
                /\ UNCHANGED <<tools_cache, hist>>
           ELSE IF ~mcp_connected
           THEN /\ bcall' = call
                /\ tools_cache' = OpenaiNotConnected
                /\ UNCHANGED hist
           ELSE /\ bcall' = [call EXCEPT !.read = TRUE, !.ret = built]
                /\ tools_cache' = Cached(built)
                /\ hist' = [hist EXCEPT !.under = "current",
                                        !.builds = IF @ < 2 THEN @ + 1 ELSE @]
    /\ rcall' = Returned(rcall)
    /\ UNCHANGED <<ptc, mcp_connected, dispatched, mcp_tools, resources_cache,
                   chatVars,
                   authVars, relayVars, providerVars, toolVars, clientVars, storageVars>>

\* LLMBridge.get_tools_for_gemini
GetToolsForGemini ==
    /\ LET call == [NoBcall EXCEPT !.op = "gemini", !.s_cache = tools_cache,
                                   !.s_tools = mcp_tools, !.connected = mcp_connected]
       IN  IF ~mcp_connected
           THEN bcall' = call
           ELSE bcall' = [call EXCEPT !.read = TRUE, !.ret = BuildGeminiTools(mcp_tools)]
    /\ rcall' = Returned(rcall)
    /\ UNCHANGED <<ptc, mcp_connected, dispatched, mcp_tools, tools_cache,
                   resources_cache, hist, chatVars,
                   authVars, relayVars, providerVars, toolVars, clientVars, storageVars>>

\* LLMBridge.clear_cache
ClearCache ==
    /\ tools_cache' = NoCache
    /\ resources_cache' = NoResources
    /\ bcall' = [NoBcall EXCEPT !.op = "clear", !.s_cache = tools_cache,
                                !.s_tools = mcp_tools, !.connected = mcp_connected]
    /\ rcall' = IF rcall.pc = "reading" THEN [rcall EXCEPT !.cleared = TRUE]
                ELSE NoRcall
    /\ hist' = NoHist
    /\ UNCHANGED <<ptc, mcp_connected, dispatched, mcp_tools, chatVars,
                   authVars, relayVars, providerVars, toolVars, clientVars, storageVars>>

\* LLMBridge.get_resource up to its return from the cache or its read_resource
GetResource(uri) ==
    /\ rcall.pc # "reading"
    /\ LET call == [NoRcall EXCEPT !.uri = uri, !.s_provided = hist.provided[uri]]
       IN  IF resources_cache[uri] # Absent
           THEN rcall' = [call EXCEPT !.pc = "returned", !.ret = resources_cache[uri],
                                      !.found = "cache"]
           ELSE IF ~mcp_connected
           THEN rcall' = [call EXCEPT !.pc = "returned", !.found = "disconnected"]
           ELSE rcall' = [call EXCEPT !.pc = "reading", !.contacted = TRUE]
    /\ bcall' = NoBcall
    /\ UNCHANGED <<ptc, mcp_connected, dispatched, mcp_tools, tools_cache,
                   resources_cache, hist, chatVars,
                   authVars, relayVars, providerVars, toolVars, clientVars, storageVars>>

\* read_resource returns content: parsed data is cached and returned, other
\* text is returned as it is, nothing read gives None
ReadResourceReturns(content) ==
    /\ rcall.pc = "reading"
    /\ LET uri == rcall.uri
           r == ParseResource(content)
       IN  IF content \in {None, ContentEmpty}
           THEN /\ rcall' = [rcall EXCEPT !.pc = "returned", !.found = "empty"]
                /\ UNCHANGED <<resources_cache, hist>>
           ELSE IF r.ok
           THEN /\ rcall' = [rcall EXCEPT !.pc = "returned", !.ret = r.data,
                                          !.found = "data"]
                /\ resources_cache' = [resources_cache EXCEPT ![uri] = r.data]
                /\ hist' = [hist EXCEPT !.provided[uri] = r.data]
           ELSE /\ rcall' = [rcall EXCEPT !.pc = "returned", !.ret = content,
                                          !.found = "text"]
                /\ hist' = [hist EXCEPT !.provided[uri] = content]
                /\ UNCHANGED resources_cache
    /\ bcall' = NoBcall
    /\ UNCHANGED <<ptc, mcp_connected, dispatched, mcp_tools, tools_cache,
                   chatVars,
                   authVars, relayVars, providerVars, toolVars, clientVars, storageVars>>

\* ------------------------------------------ VertexAIAuth.get_access_token
Callers == {"c1", "c2"}
Tokens == {"tokA", "tokB"}
\* expires_in of a token response: a short life, one just over the margin, or
\* the entry missing (the default applies)
Lifetimes == {1, ExpiryMargin + 2, DefaultExpiresIn}

\* a call of get_access_token: s_* is the cache and clock it found, exch the
\* token exchanges it has started, at and lifetime what it cached and when, last
\* whether its exchange is the latest one that completed
NoCall == [pc |-> "idle", ret |-> None, exch |-> 0, s_token |-> None, s_expiry |-> 0,
           s_now |-> 0, at |-> 0, lifetime |-> 0, last |-> FALSE]

\* self.access_token and time.time() < self.token_expiry - 60
CacheValidIgnoresExpiry(token, expiry, t) == token # None
CacheValid(token, expiry, t) == token # None /\ t < expiry - ExpiryMargin

\* get_access_token up to its return of the cached token or its token request;
\* jwt_ok = FALSE is _create_jwt raising before any request is made
GetAccessToken(c, jwt_ok) ==
    /\ auth[c].pc = "idle"
    /\ LET call == [NoCall EXCEPT !.s_token = access_token, !.s_expiry = token_expiry,
                                  !.s_now = now]
       IN  IF CacheValid(access_token, token_expiry, now)
           THEN auth' = [auth EXCEPT ![c] = [call EXCEPT !.pc = "returned",
                                                         !.ret = access_token]]
           ELSE IF jwt_ok
           THEN auth' = [auth EXCEPT ![c] = [call EXCEPT !.pc = "exchange", !.exch = 1]]
           ELSE auth' = [auth EXCEPT ![c] = [call EXCEPT !.pc = "raised"]]
    /\ UNCHANGED <<access_token, token_expiry, now, chatVars, bridgeVars,
                   relayVars, providerVars, toolVars, clientVars, storageVars>>

\* the call c completes its exchange with the answer (token, lifetime)
Completed(c, token, lifetime) ==
    [x \in Callers |->
        IF x = c
        THEN [auth[x] EXCEPT !.pc = "returned", !.ret = token, !.at = now,
                             !.lifetime = lifetime, !.last = TRUE]
        ELSE [auth[x] EXCEPT !.last = FALSE]]

\* the token endpoint answers: the token and its expiry are cached
ExchangeDoneKeepsLaterExpiry(c, token, lifetime) ==
    /\ auth[c].pc = "exchange"
    /\ access_token' = token
    /\ token_expiry' = IF token_expiry > now + lifetime THEN token_expiry
                       ELSE now + lifetime
    /\ auth' = Completed(c, token, lifetime)
    /\ UNCHANGED <<now, chatVars, bridgeVars,
                   relayVars, providerVars, toolVars, clientVars, storageVars>>
ExchangeDone(c, token, lifetime) ==
    /\ auth[c].pc = "exchange"
    /\ access_token' = token
    /\ token_expiry' = now + lifetime
    /\ auth' = Completed(c, token, lifetime)
    /\ UNCHANGED <<now, chatVars, bridgeVars,
                   relayVars, providerVars, toolVars, clientVars, storageVars>>

\* the request fails, raise_for_status raises or the answer holds no token: the
\* exception leaves the call
ExchangeFailsClearsCache(c) ==
    /\ auth[c].pc = "exchange"
    /\ auth' = [auth EXCEPT ![c].pc = "raised"]
    /\ access_token' = None
    /\ UNCHANGED <<token_expiry, now, chatVars, bridgeVars,
                   relayVars, providerVars, toolVars, clientVars, storageVars>>
ExchangeFails(c) ==
    /\ auth[c].pc = "exchange"
    /\ auth' = [auth EXCEPT ![c].pc = "raised"]
    /\ UNCHANGED <<access_token, token_expiry, now, chatVars, bridgeVars,
                   relayVars, providerVars, toolVars, clientVars, storageVars>>

\* the wall clock advances
Tick ==
    /\ now < MaxTime
    /\ now' = now + 1
    /\ UNCHANGED <<access_token, token_expiry, auth, chatVars, bridgeVars,
                   relayVars, providerVars, toolVars, clientVars, storageVars>>

\* the caller goes on with the token, or with the exception
CallerResumes(c) ==
    /\ auth[c].pc \in {"returned", "raised"}
    /\ auth' = [auth EXCEPT ![c] = NoCall]
    /\ UNCHANGED <<access_token, token_expiry, now, chatVars, bridgeVars,
                   relayVars, providerVars, toolVars, clientVars, storageVars>>

\* no call of get_access_token is under way
NoCallInFlight == \A c \in Callers : auth[c].pc = "idle"

\* ------------------------------ MCPClient.call_tool, LLMBridge.execute_tool
\* a result value: t is its Python type, the other entries its keys (or Absent)
Result(t, success, error, result, x) ==
    [t |-> t, success |-> success, error |-> error, result |-> result, x |-> x]

\* texts of a text content part
TextOk == "{\"success\":true,\"x\":1}"
TextErr == "{\"success\":false,\"error\":\"boom\"}"
TextObj == "{\"x\":1}"
TextList == "[1,2]"
TextRaw == "done"
ToolTexts == {TextOk, TextErr, TextObj, TextList, TextRaw}

\* what session.call_tool does: raise, or answer with no content, one text
\* part, one part that is no text, or several parts
Answers ==
    [kind : {"text"}, text : ToolTexts]
    \cup [kind : {"raise", "empty", "part", "parts"}, text : {Absent}]

\* json.loads on the text of a content part
ParseToolText(text) ==
    CASE text = TextOk -> [ok |-> TRUE, value |-> Result("dict", "True", Absent, Absent, "1")]
      [] text = TextErr -> [ok |-> TRUE, value |-> Result("dict", "False", "boom", Absent, Absent)]
      [] text = TextObj -> [ok |-> TRUE, value |-> Result("dict", Absent, Absent, Absent, "1")]
      [] text = TextList -> [ok |-> TRUE, value |-> Result("list", Absent, Absent, Absent, Absent)]
      [] OTHER -> [ok |-> FALSE, value |-> Result("none", Absent, Absent, Absent, Absent)]

\* a call that returned value / a call that raised
Returns(value) == [raised |-> FALSE, value |-> value]
Raises == [raised |-> TRUE, value |-> Result("none", Absent, Absent, Absent, Absent)]

\* the except clause of call_tool
CallToolExceptReraises == Raises
CallToolExcept == Returns(Result("dict", "False", "str(e)", Absent, Absent))

\* MCPClient.call_tool
call_tool(has_session, answer) ==
    IF ~has_session
    THEN Returns(Result("dict", "False", "Not connected to MCP server", Absent, Absent))
    ELSE IF answer.kind = "raise" THEN CallToolExcept
    ELSE IF answer.kind = "empty"
    THEN Returns(Result("dict", "True", Absent, None, Absent))
    ELSE IF answer.kind = "text"
    THEN IF ParseToolText(answer.text).ok
         THEN Returns(ParseToolText(answer.text).value)
         ELSE Returns(Result("dict", Absent, Absent, answer.text, Absent))
    ELSE Returns(Result("dict", Absent, Absent, "str(content)", Absent))

\* LLMBridge.execute_tool
execute_tool(connected, answer) ==
    IF ~connected
    THEN Returns(Result("dict", "False", "MCP not connected", Absent, Absent))
    ELSE IF call_tool(connected, answer).raised
    THEN Returns(Result("dict", "False", "str(e)", Absent, Absent))
    ELSE call_tool(connected, answer)

\* arguments = arguments or {}
CallArguments == {None, "{}", "{x:1}"}
OrEmpty(arguments) == IF arguments \in {None, "{}"} THEN "{}" ELSE arguments

\* a call: the connection it found, what reached the session, the session's
\* answer and what the call gave back
NoTcall == [op |-> "none", connected |-> FALSE, name |-> Absent, arguments |-> Absent,
            answer |-> [kind |-> "none", text |-> Absent], out |-> Raises]

\* self.session is set while connected, and also while connect() is still
\* initialising it (mcp_client.py 102-112)
HasSession == IF mcp_connected THEN {TRUE} ELSE BOOLEAN

\* connected records the test the call made: self.session for call_tool,
\* mcp_client.connected for execute_tool
CallTool(name, arguments, answer) ==
    /\ \E has_session \in HasSession :
          tcall' = [op |-> "call_tool", connected |-> has_session, name |-> name,
                    arguments |-> IF has_session THEN OrEmpty(arguments) ELSE Absent,
                    answer |-> IF has_session THEN answer ELSE NoTcall.answer,
                    out |-> call_tool(has_session, answer)]
    /\ UNCHANGED <<mc, chatVars, bridgeVars, authVars, relayVars, providerVars, clientVars, storageVars>>

ExecuteTool(name, arguments, answer) ==
    /\ tcall' = [op |-> "execute_tool", connected |-> mcp_connected, name |-> name,
                 arguments |-> IF mcp_connected THEN OrEmpty(arguments) ELSE Absent,
                 answer |-> IF mcp_connected THEN answer ELSE NoTcall.answer,
                 out |-> execute_tool(mcp_connected, answer)]
    /\ UNCHANGED <<mc, chatVars, bridgeVars, authVars, relayVars, providerVars, clientVars, storageVars>>

\* ------------------------------- MCPClient.connect, MCPClient.disconnect
\* the tasks that call connect and disconnect on the one client are Callers
\* what list_tools answers, or that it raised
ListAnswers == {[raised |-> TRUE, tools |-> <<>>], [raised |-> FALSE, tools |-> <<>>],
                [raised |-> FALSE, tools |-> <<"fly_to">>]}
\* where the body of connect goes after its subprocess was asked for
SpawnOutcomes == {"spawn_fails", "session_fails", "ok"}

\* a call in progress: pc is the await it is suspended on, stack the exit stack
\* that await was called on, failed the step of connect that raised, and
\* was_connected and opened what the call found: the flag and the number of
\* subprocesses and sessions opened so far
NoTask == [pc |-> "idle", op |-> "none", stack |-> 0, failed |-> Absent,
           was_connected |-> FALSE, opened |-> 0]
NoMcCall == [op |-> "none", caller |-> Absent, ret |-> None, failed |-> Absent,
             was_connected |-> FALSE, opened |-> 0]

\* the client: session and exit_stack are 0 for None, else the number of the
\* session in res and of the AsyncExitStack; res lists every subprocess and
\* session a connect opened, with the stack it was entered on, whether it is
\* still open, and for a session the subprocess it talks to; last is the
\* call that returned last
NoMc == [session |-> 0, exit_stack |-> 0, tools |-> <<>>, connected_flag |-> FALSE,
         nstacks |-> 0, res |-> <<>>, task |-> [c \in Callers |-> NoTask],
         nconnects |-> 0, last |-> NoMcCall]

\* the connected property
connected(m) == m.connected_flag /\ m.session # 0

\* exit_stack.aclose(): everything entered on the stack is closed
CloseStack(res, stack) ==
    [i \in 1..Len(res) |-> IF res[i].stack = stack THEN [res[i] EXCEPT !.open = FALSE]
                           ELSE res[i]]

\* the four assignments at the end of disconnect
ResetClient(m) ==
    [m EXCEPT !.session = 0, !.exit_stack = 0, !.tools = <<>>, !.connected_flag = FALSE]

\* the call of caller c returns ret
CallReturns(m, c, ret) ==
    [m EXCEPT !.task[c] = NoTask,
              !.last = [op |-> m.task[c].op, caller |-> c, ret |-> ret,
                        failed |-> m.task[c].failed,
                        was_connected |-> m.task[c].was_connected,
                        opened |-> m.task[c].opened]]

\* what a call returns once disconnect is over: connect's except returns False
AfterDisconnect(m, c) == IF m.task[c].op = "connect" THEN "False" ELSE None

\* disconnect up to its await of aclose, or to its end when there is no stack
disconnect(m, c) ==
    IF m.exit_stack # 0
    THEN [m EXCEPT !.task[c].pc = "close", !.task[c].stack = m.exit_stack]
    ELSE CallReturns(ResetClient(m), c, AfterDisconnect(m, c))

\* connect's except branch without the call of disconnect
ConnectExceptKeepsState(m, c, step) ==
    CallReturns([m EXCEPT !.task[c].failed = step], c, "False")
\* connect's except branch: disconnect, then return False
ConnectExcept(m, c, step) == disconnect([m EXCEPT !.task[c].failed = step], c)

\* the end of connect's try body
ConnectSucceeds(m, c) == CallReturns([m EXCEPT !.connected_flag = TRUE], c, "True")

Called(c, op) ==
    [mc EXCEPT !.task[c] = [NoTask EXCEPT !.op = op, !.was_connected = mc.connected_flag,
                                          !.opened = Len(mc.res)]]

\* MCPClient.connect up to its first suspension, in stdio_client
McConnect(c) ==
    /\ mc.task[c].pc = "idle"
    /\ mc.nconnects < MaxConnects
    /\ LET m == [Called(c, "connect") EXCEPT !.nconnects = @ + 1]
       IN  IF mc.connected_flag
           THEN mc' = CallReturns(m, c, "True")
           ELSE mc' = [m EXCEPT !.nstacks = @ + 1, !.exit_stack = mc.nstacks + 1,
                                !.task[c].pc = "spawn", !.task[c].stack = mc.nstacks + 1]
    /\ UNCHANGED <<tcall, chatVars, bridgeVars, authVars, relayVars, providerVars, clientVars, storageVars>>

\* stdio_client is over: the subprocess is entered on the stack the call was
\* made on, the session on the stack self.exit_stack names now, and
\* session.initialize is awaited
SpawnDone(c, outcome) ==
    /\ mc.task[c].pc = "spawn"
    /\ LET proc == Len(mc.res) + 1
           m1 == [mc EXCEPT !.res = Append(@, [kind |-> "proc", stack |-> mc.task[c].stack,
                                               open |-> TRUE, proc |-> proc])]
       IN  IF outcome = "spawn_fails"
           THEN mc' = ConnectExcept(mc, c, "spawn")
           ELSE IF m1.exit_stack = 0 \/ outcome = "session_fails"
           THEN mc' = ConnectExcept(m1, c, "session")
           ELSE mc' = [m1 EXCEPT !.res = Append(@, [kind |-> "sess",
                                                    stack |-> m1.exit_stack,
                                                    open |-> TRUE, proc |-> proc]),
                                 !.session = proc + 1,
                                 !.task[c].pc = "initialize"]
    /\ UNCHANGED <<tcall, chatVars, bridgeVars, authVars, relayVars, providerVars, clientVars, storageVars>>

\* session.initialize is over; _load_tools returns at once without a session
InitializeDone(c, ok) ==
    /\ mc.task[c].pc = "initialize"
    /\ IF ~ok
       THEN mc' = ConnectExcept(mc, c, "initialize")
       ELSE IF mc.session = 0
       THEN mc' = ConnectSucceeds(mc, c)
       ELSE mc' = [mc EXCEPT !.task[c].pc = "load"]
    /\ UNCHANGED <<tcall, chatVars, bridgeVars, authVars, relayVars, providerVars, clientVars, storageVars>>

\* list_tools is over: _load_tools stores the tools, or [] when it raised
LoadDone(c, answer) ==
    /\ mc.task[c].pc = "load"
    /\ mc' = ConnectSucceeds([mc EXCEPT !.tools = IF answer.raised THEN <<>>
                                                  ELSE answer.tools], c)
    /\ UNCHANGED <<tcall, chatVars, bridgeVars, authVars, relayVars, providerVars, clientVars, storageVars>>

\* MCPClient.disconnect called by c, up to its await of aclose
McDisconnectCall(c) ==
    /\ mc.task[c].pc = "idle"
    /\ mc' = disconnect(Called(c, "disconnect"), c)
    /\ UNCHANGED <<tcall, chatVars, bridgeVars, authVars, relayVars, providerVars, clientVars, storageVars>>

\* aclose is over (what it raises is logged): disconnect resets the client
CloseDone(c) ==
    /\ mc.task[c].pc = "close"
    /\ LET m == [mc EXCEPT !.res = CloseStack(@, mc.task[c].stack)]
       IN  mc' = CallReturns(ResetClient(m), c, AfterDisconnect(m, c))
    /\ UNCHANGED <<tcall, chatVars, bridgeVars, authVars, relayVars, providerVars, clientVars, storageVars>>

\* ------------------------------------------------------- execute_action
RelayActions == {"fly_to", "set_weather"}
RelayArguments == {"{}", "{x:1}"}

\* an /execute request: count is len(active_connections) when it was taken,
\* s_conns the connections then, idx the position of the loop in
\* active_connections, cur the connection being sent to, sent the action
\* messages that reached a client, ret the response, left the clients that
\* disconnected while the loop was suspended, failed those whose send raised
NoRelayRet == [success |-> Absent, error |-> Absent, action |-> Absent,
               arguments |-> Absent, clients_notified |-> 0]
NoRelay == [pc |-> "idle", action |-> Absent, arguments |-> Absent, count |-> 0,
            s_conns |-> <<>>, idx |-> 0, cur |-> Absent, sent |-> <<>>, ret |-> NoRelayRet,
            left |-> {}, failed |-> {}]

\* the clients_notified entry of the response
ClientsNotified(r) == r.count

\* the success response of execute_action
RelaySuccess(r) ==
    [success |-> "True", error |-> Absent, action |-> r.action, arguments |-> r.arguments,
     clients_notified |-> ClientsNotified(r)]

\* execute_action up to its first send, or its error response
ExecuteAction(action, arguments) ==
    /\ relay.pc = "idle"
    /\ LET r == [NoRelay EXCEPT !.action = action, !.arguments = arguments,
                                !.count = Len(active_connections),
                                !.s_conns = active_connections]
       IN  IF Len(active_connections) = 0
           THEN relay' = [r EXCEPT !.pc = "returned",
                                   !.ret = [NoRelayRet EXCEPT !.success = "False",
                                                              !.error = "No connected clients"]]
           ELSE relay' = [r EXCEPT !.pc = "sending", !.idx = 1,
                                   !.cur = active_connections[1]]
    /\ UNCHANGED <<chatVars, bridgeVars, authVars, providerVars, toolVars, clientVars, storageVars>>

\* send_action to the current connection ends (ok: the message went out; else
\* send_json raised and the warning is logged); the loop goes to the next
\* element of active_connections, or the request returns
RelaySend(ok) ==
    /\ relay.pc = "sending"
    /\ ok => pc[relay.cur] # "closed"
    /\ LET sent == IF ok
                   THEN Append(relay.sent, [ws |-> relay.cur, action |-> relay.action,
                                            arguments |-> relay.arguments])
                   ELSE relay.sent
           r == [relay EXCEPT !.sent = sent, !.idx = relay.idx + 1,
                              !.failed = IF ok THEN @ ELSE @ \cup {relay.cur}]
       IN  IF r.idx > Len(active_connections)
           THEN relay' = [r EXCEPT !.pc = "returned", !.cur = Absent, !.ret = RelaySuccess(r)]
           ELSE relay' = [r EXCEPT !.cur = active_connections[r.idx]]
    /\ UNCHANGED <<chatVars, bridgeVars, authVars, providerVars, toolVars, clientVars, storageVars>>

\* the response of /execute has gone out
RelayDone ==
    /\ relay.pc = "returned"
    /\ relay' = NoRelay
    /\ UNCHANGED <<chatVars, bridgeVars, authVars, providerVars, toolVars, clientVars, storageVars>>

\* -------------------------------------------------------- ProviderManager
\* an environment variable: unset, set to the empty string, or set
EnvValues == {Absent, "", "v"}
\* GOOGLE_APPLICATION_CREDENTIALS also names a file that exists or does not
PathValues == {Absent, "", "missing.json", "exists.json"}
IsSet(v) == v \notin {Absent, ""}
PathExists(v) == v = "exists.json"

Envs ==
    [DASHSCOPE_API_KEY : EnvValues, SILICONFLOW_API_KEY : EnvValues,
     DEEPSEEK_API_KEY : EnvValues, OPENAI_API_KEY : EnvValues,
     GOOGLE_APPLICATION_CREDENTIALS : PathValues, VERTEX_CLIENT_EMAIL : EnvValues,
     VERTEX_PRIVATE_KEY : EnvValues,
     LLM_API_KEY : EnvValues, LLM_BASE_URL : EnvValues, LLM_MODEL : EnvValues]
NoEnv == [DASHSCOPE_API_KEY |-> Absent, SILICONFLOW_API_KEY |-> Absent,
          DEEPSEEK_API_KEY |-> Absent, OPENAI_API_KEY |-> Absent,
          GOOGLE_APPLICATION_CREDENTIALS |-> Absent, VERTEX_CLIENT_EMAIL |-> Absent,
          VERTEX_PRIVATE_KEY |-> Absent,
          LLM_API_KEY |-> Absent, LLM_BASE_URL |-> Absent, LLM_MODEL |-> Absent]

\* the providers _load_from_env adds, by name (each is added enabled)
LoadedProviders(env) ==
    {"ollama"}
    \cup (IF IsSet(env.DASHSCOPE_API_KEY) THEN {"dashscope"} ELSE {})
    \cup (IF IsSet(env.SILICONFLOW_API_KEY) THEN {"siliconflow"} ELSE {})
    \cup (IF IsSet(env.DEEPSEEK_API_KEY) THEN {"deepseek"} ELSE {})
    \cup (IF IsSet(env.OPENAI_API_KEY) THEN {"openai"} ELSE {})
    \cup (IF IsSet(env.GOOGLE_APPLICATION_CREDENTIALS)
             /\ PathExists(env.GOOGLE_APPLICATION_CREDENTIALS)
          THEN {"vertex_ai"}
          ELSE IF IsSet(env.VERTEX_CLIENT_EMAIL) /\ IsSet(env.VERTEX_PRIVATE_KEY)
          THEN {"vertex_ai"} ELSE {})
    \cup (IF IsSet(env.LLM_API_KEY) /\ IsSet(env.LLM_BASE_URL) /\ IsSet(env.LLM_MODEL)
          THEN {"custom"} ELSE {})

\* the priority list of _load_from_env
priorityOllamaFirst ==
    <<"ollama", "custom", "vertex_ai", "dashscope", "siliconflow", "deepseek", "openai">>
priority ==
    <<"custom", "vertex_ai", "dashscope", "siliconflow", "deepseek", "openai", "ollama">>

\* the loop over priority from position i: the first name that is a provider
RECURSIVE FirstEnabled(_, _)
FirstEnabled(providers, i) ==
    IF i > Len(priority) THEN None
    ELSE IF priority[i] \in providers THEN priority[i]
    ELSE FirstEnabled(providers, i + 1)

\* the variables that name a provider's model
ModelEnvs ==
    [OLLAMA_MODEL : EnvValues, DASHSCOPE_MODEL : EnvValues, SILICONFLOW_MODEL : EnvValues,
     DEEPSEEK_MODEL : EnvValues, OPENAI_MODEL : EnvValues, VERTEX_MODEL : EnvValues]
NoModelEnv ==
    [OLLAMA_MODEL |-> Absent, DASHSCOPE_MODEL |-> Absent, SILICONFLOW_MODEL |-> Absent,
     DEEPSEEK_MODEL |-> Absent, OPENAI_MODEL |-> Absent, VERTEX_MODEL |-> Absent]

\* os.getenv(name, default)
Getenv(v, default) == IF v = Absent THEN default ELSE v

\* the model _load_from_env gives the provider called name
LoadedModel(env, menv, name) ==
    CASE name = "ollama" -> Getenv(menv.OLLAMA_MODEL, "qwen2.5:7b")
      [] name = "dashscope" -> Getenv(menv.DASHSCOPE_MODEL, "qwen-plus")
      [] name = "siliconflow" -> Getenv(menv.SILICONFLOW_MODEL, "Qwen/Qwen2.5-7B-Instruct")
      [] name = "deepseek" -> Getenv(menv.DEEPSEEK_MODEL, "deepseek-chat")
      [] name = "openai" -> Getenv(menv.OPENAI_MODEL, "gpt-4o-mini")
      [] name = "vertex_ai" -> Getenv(menv.VERTEX_MODEL, "gemini-2.5-flash-lite")
      [] OTHER -> env.LLM_MODEL

\* the order in which _load_from_env adds providers
AddOrder ==
    <<"ollama", "dashscope", "siliconflow", "deepseek", "openai", "vertex_ai", "custom">>

\* the LLMProvider objects made so far are heap[1], heap[2], ...; record[name]
\* is the object providers[name] refers to
RECURSIVE LoadedHeap(_, _, _, _)
LoadedHeap(env, menv, providers, i) ==
    IF i > Len(AddOrder) THEN <<>>
    ELSE IF AddOrder[i] \in providers
    THEN <<[name |-> AddOrder[i], model |-> LoadedModel(env, menv, AddOrder[i])]>>
         \o LoadedHeap(env, menv, providers, i + 1)
    ELSE LoadedHeap(env, menv, providers, i + 1)

RecordOf(heap, providers) ==
    [n \in providers |-> CHOOSE i \in 1..Len(heap) : heap[i].name = n]

NotBuilt == [built |-> FALSE, provider |-> 0, model |-> Absent]
NoOp == [op |-> "none", name |-> Absent, model |-> Absent, raised |-> FALSE,
         active |-> None, old |-> 0]

NoPm == [pc |-> "new", env |-> NoEnv, menv |-> NoModelEnv, providers |-> {},
         record |-> <<>>, heap |-> <<>>, active_provider |-> None,
         client |-> NotBuilt, nops |-> 0, last |-> NoOp]

\* ProviderManager.__init__ / _load_from_env under the environment env, menv
LoadFromEnv(env, menv) ==
    /\ pm.pc = "new"
    /\ LET providers == LoadedProviders(env)
           heap == LoadedHeap(env, menv, providers, 1)
       IN  pm' = [pm EXCEPT !.pc = "loaded", !.env = env, !.menv = menv,
                            !.providers = providers,
                            !.record = RecordOf(heap, providers), !.heap = heap,
                            !.active_provider = FirstEnabled(providers, 1)]
    /\ UNCHANGED <<chatVars, bridgeVars, authVars, relayVars, toolVars, clientVars, storageVars>>

\* names and models given to the manager's operations
ProviderNames == {"ollama", "deepseek", "nope"}
ModelNames == {"m1", "m2"}

\* providers[name] = provider, as a dict assignment
Stored(m, name, model) ==
    [m EXCEPT !.providers = @ \cup {name},
              !.heap = Append(@, [name |-> name, model |-> model]),
              !.record = [n \in (DOMAIN @) \cup {name} |->
                            IF n = name THEN Len(m.heap) + 1 ELSE @[n]]]

\* set_model on a record updated in place instead of replaced
StoredModelInPlace(m, name, model) ==
    [m EXCEPT !.heap = [@ EXCEPT ![m.record[name]].model = model]]
\* set_model: a new LLMProvider with the fields of the old one and the model
StoredModel(m, name, model) == Stored(m, name, model)

\* ProviderManager.set_active; a raise leaves the manager as it was
set_active(m, name) ==
    IF name \notin m.providers
    THEN [raised |-> TRUE, m |-> m]
    ELSE [raised |-> FALSE, m |-> [m EXCEPT !.active_provider = name]]

\* ProviderManager.set_model
set_model(m, name, model) ==
    IF name \notin m.providers
    THEN [raised |-> TRUE, m |-> m]
    ELSE [raised |-> FALSE, m |-> StoredModel(m, name, model)]

\* ProviderManager.get_client: LLMClient(provider) keeps the object
get_client(m) ==
    IF m.active_provider \notin {None, ""} /\ m.active_provider \in m.providers
    THEN [built |-> TRUE, provider |-> m.record[m.active_provider],
          model |-> m.heap[m.record[m.active_provider]].model]
    ELSE NotBuilt

Op(op, name, model, raised) ==
    [op |-> op, name |-> name, model |-> model, raised |-> raised,
     active |-> pm.active_provider,
     old |-> IF name \in pm.providers THEN pm.record[name] ELSE 0]

Did(m, last) == [m EXCEPT !.nops = @ + 1, !.last = last]

AddProvider(name, model) ==
    /\ pm.pc = "loaded"
    /\ pm.nops < MaxOps
    /\ pm' = Did(Stored(pm, name, model), Op("add_provider", name, model, FALSE))
    /\ UNCHANGED <<chatVars, bridgeVars, authVars, relayVars, toolVars, clientVars, storageVars>>

SetActive(name) ==
    /\ pm.pc = "loaded"
    /\ pm.nops < MaxOps
    /\ pm' = Did(set_active(pm, name).m,
                 Op("set_active", name, Absent, set_active(pm, name).raised))
    /\ UNCHANGED <<chatVars, bridgeVars, authVars, relayVars, toolVars, clientVars, storageVars>>

SetModel(name, model) ==
    /\ pm.pc = "loaded"
    /\ pm.nops < MaxOps
    /\ pm' = Did(set_model(pm, name, model).m,
                 Op("set_model", name, model, set_model(pm, name, model).raised))
    /\ UNCHANGED <<chatVars, bridgeVars, authVars, relayVars, toolVars, clientVars, storageVars>>

GetClient ==
    /\ pm.pc = "loaded"
    /\ pm.client # get_client(pm)
    /\ pm' = [pm EXCEPT !.client = get_client(pm), !.last = NoOp]
    /\ UNCHANGED <<chatVars, bridgeVars, authVars, relayVars, toolVars, clientVars, storageVars>>

\* the body of POST /providers/select
SelectBodies == [provider : {None, ""} \cup ProviderNames, model : {None, ""} \cup ModelNames]
Given(v) == v \notin {None, ""}

\* select_provider: every exception ends the request with success false;
\* pm.client is the client assigned to manager.parser.llm_client, which is the
\* assistant's llm_client
SelectProvider(body) ==
    /\ pm.pc = "loaded"
    /\ pm.nops < MaxOps
    /\ LET m1 == IF Given(body.provider) THEN set_active(pm, body.provider)
                 ELSE [raised |-> FALSE, m |-> pm]
           m2 == IF m1.raised THEN m1
                 ELSE IF Given(body.model) /\ Given(body.provider)
                 THEN set_model(m1.m, body.provider, body.model)
                 ELSE m1
       IN  /\ pm' = Did(IF m2.raised THEN m2.m
                         ELSE [m2.m EXCEPT !.client = get_client(m2.m)],
                        Op("select", body.provider, body.model, m2.raised))
           /\ llm_client' = IF m2.raised THEN llm_client
                             ELSE IF get_client(m2.m).built THEN "client" ELSE None
    /\ UNCHANGED <<conversation_history, log, use_llm, active_connections, pc, turn, reply,
                   outbox, nturns>>
    /\ UNCHANGED <<bridgeVars, authVars, relayVars, toolVars, clientVars, storageVars>>

\* -------------------------------------- VertexAIAuth.__init__, LLMClient.__init__
\* service_account_json: empty, a file holding a bundle, a file that is not
\* JSON, a JSON string, a string that is neither a file nor JSON
JsonArgs == {"", "sa.json", "bad.json", "{bundle}", "nofile"}
IsFile(j) == j \in {"sa.json", "bad.json"}
LoadsAsJson(j) == j \in {"sa.json", "{bundle}"}

Constructed(credentials) == [raised |-> FALSE, error |-> Absent, credentials |-> credentials]
InitRaises(error) == [raised |-> TRUE, error |-> error, credentials |-> Absent]

\* the else branch of VertexAIAuth.__init__
NoCredentialForm == InitRaises("ValueError")

\* VertexAIAuth.__init__
VertexAIAuthInit(service_account_json, client_email, private_key, project_id) ==
    IF service_account_json # ""
    THEN IF LoadsAsJson(service_account_json)
         THEN Constructed("bundle")
         ELSE InitRaises("JSONDecodeError")
    ELSE IF client_email # "" /\ private_key # ""
    THEN Constructed("email+key")
    ELSE NoCredentialForm

\* LLMProvider records given to LLMClient
ClientProviders ==
    [type : {"vertex_ai", "openai"}, service_account_json : JsonArgs,
     client_email : {"", "e"}, private_key : {"", "k"}, project_id : {"", "p"}]

\* LLMClient.__init__: vertex_auth stays None when no branch builds it
LLMClientInit(provider) ==
    IF provider.type = "vertex_ai"
    THEN IF provider.service_account_json # ""
         THEN VertexAIAuthInit(provider.service_account_json, "", "", "")
         ELSE IF provider.client_email # "" /\ provider.private_key # ""
         THEN VertexAIAuthInit("", provider.client_email, provider.private_key,
                               provider.project_id)
         ELSE Constructed(None)
    ELSE Constructed(None)

NoVauth == [op |-> "none", provider |-> Absent, out |-> InitRaises(Absent)]

NewVertexAIAuth(provider) ==
    /\ provider.type = "vertex_ai"
    /\ vauth' = [op |-> "VertexAIAuth", provider |-> provider,
                 out |-> VertexAIAuthInit(provider.service_account_json,
                                          provider.client_email, provider.private_key,
                                          provider.project_id)]
    /\ UNCHANGED <<chatVars, bridgeVars, authVars, relayVars, providerVars, toolVars,
                   llm, storageVars>>

NewLLMClient(provider) ==
    /\ vauth' = [op |-> "LLMClient", provider |-> provider, out |-> LLMClientInit(provider)]
    /\ UNCHANGED <<chatVars, bridgeVars, authVars, relayVars, providerVars, toolVars,
                   llm, storageVars>>

\* ------------------------------------------ LLMClient.chat, chat_with_tools
\* a part of a Vertex candidate: text, a function call (with or without an
\* args entry), or a part that is neither
TextPart == [kind |-> "text", name |-> Absent, has_args |-> FALSE, args |-> <<>>]
OtherPart == [kind |-> "other", name |-> Absent, has_args |-> FALSE, args |-> <<>>]
CallPart(name, args) == [kind |-> "functionCall", name |-> name, has_args |-> TRUE,
                         args |-> args]
CallPartNoArgs(name) == [kind |-> "functionCall", name |-> name, has_args |-> FALSE,
                         args |-> <<>>]
CallParts == {CallPart("fly_to", args) : args \in ArgMaps} \cup {CallPartNoArgs("set_weather")}
\* the parts candidates are made of: the function calls among them have no
\* args entry, an empty mapping or two arguments
Parts ==
    {TextPart, OtherPart, CallPartNoArgs("set_weather"), CallPart("fly_to", <<>>),
     CallPart("fly_to", <<<<"y", "None">>, <<"x", "'s'">>>>)}
PartLists == UNION {[1..n -> Parts] : n \in 0..MaxParts}

\* finishReason of the candidate, when it has one
FinishReasons == {Absent, "STOP", "MAX_TOKENS"}

\* ChatResponse; tool_calls is None (set = FALSE) or a list
ChatResponse(content, tool_calls, finish_reason) ==
    [content |-> content, tool_calls |-> tool_calls, finish_reason |-> finish_reason]
NoToolCalls == [set |-> FALSE, list |-> <<>>]

\* the id call_<i> is written i; enumerate counts the parts from 0
CallId(i) == i - 1

\* the loop over enumerate(parts): the converted function calls from part i on
RECURSIVE ConvertedCalls(_, _)
ConvertedCalls(parts, i) ==
    IF i > Len(parts) THEN <<>>
    ELSE IF parts[i].kind = "functionCall"
    THEN <<[id |-> CallId(i), type |-> "function", name |-> parts[i].name,
            arguments |-> json_dumps(IF parts[i].has_args THEN parts[i].args ELSE <<>>)]>>
         \o ConvertedCalls(parts, i + 1)
    ELSE ConvertedCalls(parts, i + 1)

\* text_content: the texts of the text parts, in order
RECURSIVE ConvertedText(_, _)
ConvertedText(parts, i) ==
    IF i > Len(parts) THEN <<>>
    ELSE (IF parts[i].kind = "text" THEN <<"t">> ELSE <<>>) \o ConvertedText(parts, i + 1)

\* finish_reason left as the backend sent it
FinishReasonKept(reason, tool_calls) == Get(reason, "STOP")
\* candidate.get("finishReason", "STOP"), replaced when there are tool calls
FinishReason(reason, tool_calls) ==
    IF Len(tool_calls) > 0 THEN "tool_calls" ELSE Get(reason, "STOP")

\* the ChatResponse built from the first candidate
ConvertCandidate(parts, reason) ==
    LET tool_calls == ConvertedCalls(parts, 1)
    IN  ChatResponse(ConvertedText(parts, 1),
                     IF Len(tool_calls) > 0 THEN [set |-> TRUE, list |-> tool_calls]
                     ELSE NoToolCalls,
                     FinishReason(reason, tool_calls))

\* a call of the client: the provider type, whether vertex_auth was built, how
\* get_access_token ends, the arguments of a tool call stored in an assistant
\* message, how the POST ends, and the body of a 200 answer
TokenEnds == {"ok", "httpx.HTTPStatusError", "httpx.ConnectError"}
StoredArgs == {"none", "dict", "json", "malformed"}
PostEnds == {"ok", "httpx.HTTPStatusError", "httpx.ConnectError"}
Body(kind, candidates, parts, reason) ==
    [kind |-> kind, candidates |-> candidates, parts |-> parts, reason |-> reason]
PlainBody == Body("good", TRUE, <<TextPart>>, "STOP")

Request(op, type, has_auth, token, stored, post, body) ==
    [op |-> op, type |-> type, has_auth |-> has_auth, token |-> token, stored |-> stored,
     post |-> post, body |-> body]

\* calls that go wrong somewhere, or whose answer is not as documented
FailingRequests ==
    {Request(op, type, has_auth, token, stored, post, Body(kind, candidates, <<TextPart>>, "STOP")) :
        op \in {"chat", "chat_with_tools"}, type \in {"openai", "vertex_ai"},
        has_auth \in BOOLEAN, token \in TokenEnds, stored \in StoredArgs, post \in PostEnds,
        kind \in {"good", "malformed"}, candidates \in BOOLEAN}
\* chat_with_tools calls of a vertex_ai client that get a candidate back
ConvertingRequests ==
    {Request("chat_with_tools", "vertex_ai", TRUE, "ok", "none", "ok",
             Body("good", TRUE, parts, reason)) :
        parts \in PartLists, reason \in FinishReasons}
Requests == FailingRequests \cup ConvertingRequests

LlmReturns(value) == [raised |-> FALSE, type |-> Absent, context |-> Absent, value |-> value]
LlmRaises(type, context) ==
    [raised |-> TRUE, type |-> type, context |-> context,
     value |-> ChatResponse(<<>>, NoToolCalls, Absent)]

\* the except clauses after the POST of every strategy
Wrapped(exc) ==
    IF exc = "httpx.HTTPStatusError"
    THEN LlmRaises("Exception", "status_code and response text")
    ELSE LlmRaises("Exception", "str(e)")

\* _chat_with_tools_openai and _chat_openai_compatible: the whole exchange is
\* inside the try statement
OpenaiCall(req) ==
    IF req.post # "ok" THEN Wrapped(req.post)
    ELSE IF req.body.kind = "malformed" THEN Wrapped("KeyError")
    ELSE LlmReturns(ChatResponse(<<"t">>, NoToolCalls, "stop"))

\* _chat_with_tools_vertex_ai and _chat_vertex_ai: the token is fetched and the
\* messages are transcoded before the try statement
VertexCall(req) ==
    IF ~req.has_auth THEN LlmRaises("Exception", "Vertex AI auth not configured")
    ELSE IF req.token # "ok" THEN LlmRaises(req.token, "token")
    ELSE IF req.op = "chat_with_tools" /\ req.stored = "malformed"
    THEN LlmRaises("json.JSONDecodeError", "arguments")
    ELSE IF req.post # "ok" THEN Wrapped(req.post)
    ELSE IF req.body.kind = "malformed" THEN Wrapped("ValueError")
    ELSE IF req.op = "chat"
    THEN IF req.body.candidates /\ Len(req.body.parts) > 0
         THEN LlmReturns(ChatResponse(<<"t">>, NoToolCalls, Absent))
         ELSE Wrapped("Exception")
    ELSE IF ~req.body.candidates
    THEN LlmReturns(ChatResponse(<<>>, NoToolCalls, "stop"))
    ELSE LlmReturns(ConvertCandidate(req.body.parts, req.body.reason))

\* LLMClient.chat and LLMClient.chat_with_tools
LlmCall(req) == IF req.type = "vertex_ai" THEN VertexCall(req) ELSE OpenaiCall(req)

NoLlm == [op |-> "none", req |-> Request("none", Absent, FALSE, "ok", "none", "ok", PlainBody),
          out |-> LlmRaises(Absent, Absent)]

\* a call of the client from its first statement to its return or raise
ClientCall(req) ==
    /\ llm.op = "none"
    /\ llm' = [op |-> req.op, req |-> req, out |-> LlmCall(req)]
    /\ UNCHANGED <<chatVars, bridgeVars, authVars, relayVars, providerVars, toolVars,
                   vauth, storageVars>>

\* the caller has taken the response or the exception
ResponseTaken ==
    /\ llm.op # "none"
    /\ ptc.pc = "idle"
    /\ llm' = NoLlm
    /\ UNCHANGED <<chatVars, bridgeVars, authVars, relayVars, providerVars, toolVars,
                   vauth, storageVars>>

\* the tool calls of a response in the form process_tool_calls reads
AsToolCalls(list) ==
    [i \in 1..Len(list) |->
        [name |-> list[i].name,
         arguments |-> [kind |-> "str", map |-> <<>>, text |-> list[i].arguments]]]

\* the tool calls of the response are given to process_tool_calls
ProcessResponse ==
    /\ llm.op = "chat_with_tools"
    /\ ~llm.out.raised
    /\ llm.out.value.tool_calls.set
    /\ ProcessToolCalls(AsToolCalls(llm.out.value.tool_calls.list))

\* ------------------------------------------------------------- storage.py
\* a row of chat_logs, as far as the session summary reads it
Row(session_id, mode) == [session_id |-> session_id, mode |-> mode]
SessionIds == {None, "s1", "s2"}
RowModes == {None, "command", "conversation"}

\* where a storage call fails: nowhere, in sqlite3.connect, in execute, in commit
LogFailures == {"none", "connect", "execute", "commit"}

NoDbCall == [op |-> "none", raised |-> FALSE, fail |-> "none", out |-> {}]
NoDb == [rows |-> <<>>, last |-> NoDbCall]

\* log_chat_message: _get_conn() is called before the try statement
LogChatMessage(session_id, mode, fail) ==
    /\ Len(db.rows) < MaxRows
    /\ db' = [rows |-> IF fail = "none" THEN Append(db.rows, Row(session_id, mode))
                       ELSE db.rows,
              last |-> [op |-> "log_chat_message", raised |-> (fail = "connect"),
                        fail |-> fail, out |-> {}]]
    /\ UNCHANGED <<chatVars, bridgeVars, authVars, relayVars, providerVars, toolVars,
                   clientVars>>

\* SUM(CASE WHEN mode = m THEN 1 ELSE 0 END) over the rows of a session
RECURSIVE ModeCount(_, _, _, _)
ModeCount(rows, session_id, mode, i) ==
    IF i > Len(rows) THEN 0
    ELSE (IF rows[i].session_id = session_id /\ rows[i].mode = mode THEN 1 ELSE 0)
         + ModeCount(rows, session_id, mode, i + 1)

\* the else branch: "command" if cmd_count >= conv_count else "conversation"
MixedMode(cmd_count, conv_count) ==
    IF cmd_count >= conv_count THEN "command" ELSE "conversation"

\* the if chain that decides a session's mode
SessionMode(cmd_count, conv_count) ==
    IF cmd_count > 0 /\ conv_count = 0 THEN "command"
    ELSE IF conv_count > 0 /\ cmd_count = 0 THEN "conversation"
    ELSE IF cmd_count = 0 /\ conv_count = 0 THEN "conversation"
    ELSE MixedMode(cmd_count, conv_count)

\* one summary of get_recent_sessions; a failed mode query leaves both counts 0
Summary(rows, session_id, mode_query_fails) ==
    LET cmd_count == IF mode_query_fails THEN 0
                     ELSE ModeCount(rows, session_id, "command", 1)
        conv_count == IF mode_query_fails THEN 0
                      ELSE ModeCount(rows, session_id, "conversation", 1)
    IN  [session_id |-> session_id,
         message_count |-> Cardinality({i \in 1..Len(rows) : rows[i].session_id = session_id}),
         counted |-> ~mode_query_fails,
         mode |-> SessionMode(cmd_count, conv_count)]

\* get_recent_sessions with a limit that no session exceeds
GetRecentSessions(fail, mode_query_fails) ==
    /\ fail \in {"none", "connect", "execute"}
    /\ db' = [db EXCEPT !.last =
                [op |-> "get_recent_sessions", raised |-> (fail # "none"), fail |-> fail,
                 out |-> IF fail # "none" THEN {}
                         ELSE {Summary(db.rows, db.rows[i].session_id, mode_query_fails) :
                                 i \in {j \in 1..Len(db.rows) : db.rows[j].session_id # None}}]]
    /\ UNCHANGED <<chatVars, bridgeVars, authVars, relayVars, providerVars, toolVars,
                   clientVars>>

\* ------------------------------------------------------------ initial state
\* history after k conversation turns of an earlier connection that got JSON objects
StoredTurns(k) ==
    [i \in 1..(2 * k) |->
        IF i % 2 = 1 THEN Entry("user", "u1", PriorSession, i)
                     ELSE Entry("assistant", "m1", PriorSession, i)]

\* the numbers of stored turns a behaviour starts from: none, or the cap
StoredAtStart == {0, max_history}

ChatInit(stored) ==
    /\ use_llm \in BOOLEAN
    /\ llm_client = IF use_llm THEN "client" ELSE None
    /\ \E k \in stored :
          /\ use_llm \/ k = 0
          /\ conversation_history = StoredTurns(k)
    /\ log = conversation_history
    /\ active_connections = <<>>
    /\ pc = [ws \in WS |-> "closed"]
    /\ turn = [ws \in WS |-> NoTurn]
    /\ reply = [ws \in WS |-> NoReply]
    /\ outbox = [ws \in WS |-> <<>>]
    /\ nturns = 0

BridgeInit ==
    /\ ptc = NoPtc
    /\ mcp_connected = FALSE
    /\ dispatched = <<>>
    /\ mcp_tools = <<>>
    /\ tools_cache = NoCache
    /\ resources_cache = NoResources
    /\ bcall = NoBcall
    /\ rcall = NoRcall
    /\ hist = NoHist

AuthInit ==
    /\ access_token = None
    /\ token_expiry = 0
    /\ now = 0
    /\ auth = [c \in Callers |-> NoCall]

ServerInit ==
    /\ relay = NoRelay
    /\ pm = NoPm
    /\ tcall = NoTcall
    /\ mc = NoMc
    /\ vauth = NoVauth
    /\ llm = NoLlm
    /\ db = NoDb

Init == ChatInit(StoredAtStart) /\ BridgeInit /\ AuthInit /\ ServerInit

\* the server right after start: nothing stored yet
FreshInit == ChatInit({0}) /\ BridgeInit /\ AuthInit /\ ServerInit

\* ----------------------------------------------------------- specifications
ChatNext ==
    \/ \E ws \in WS : Connect(ws)
    \/ \E ws \in WS : Disconnect(ws)
    \/ \E ws \in WS : Ping(ws)
    \/ \E ws \in WS, user_input \in Inputs, mode \in Modes, thinking \in BOOLEAN :
          StartTurn(ws, user_input, mode, thinking)
    \/ \E ws \in WS, outcome \in ClientOutcomes : FinishTurn(ws, outcome)
    \/ \E ws \in WS : Respond(ws)
    \/ \E ws \in WS : Act(ws)
    \/ \E ws \in WS : AwaitMessage(ws)

SpecChat == Init /\ [][ChatNext]_vars

BridgeNext ==
    \/ \E calls \in ToolCallLists : ProcessToolCalls(calls)
    \/ \E result \in ToolResults : ToolReturns(result)
    \/ TakeResults
    \/ McpConnect(DefaultTools)
    \/ McpDisconnect

SpecBridge == FreshInit /\ [][BridgeNext]_vars

\* the bridge's tool list and caches over a tool provider that comes and goes
CacheNext ==
    \/ \E tools \in ToolLists : McpConnect(tools)
    \/ McpDisconnect
    \/ GetToolsForOpenai
    \/ GetToolsForGemini
    \/ ClearCache
    \/ \E uri \in URIs : GetResource(uri)
    \/ \E content \in Contents : ReadResourceReturns(content)

SpecCache == FreshInit /\ [][CacheNext]_vars

\* tool calls through the client and through the bridge
ToolNext ==
    \/ McpConnect(DefaultTools)
    \/ McpDisconnect
    \/ \E name \in ToolNames, arguments \in CallArguments, answer \in Answers :
          CallTool(name, arguments, answer)
    \/ \E name \in ToolNames, arguments \in CallArguments, answer \in Answers :
          ExecuteTool(name, arguments, answer)

SpecTool == FreshInit /\ [][ToolNext]_vars

\* connect and disconnect called by tasks that interleave at their awaits
LifecycleNext ==
    \/ \E c \in Callers : McConnect(c)
    \/ \E c \in Callers, outcome \in SpawnOutcomes : SpawnDone(c, outcome)
    \/ \E c \in Callers, ok \in BOOLEAN : InitializeDone(c, ok)
    \/ \E c \in Callers, answer \in ListAnswers : LoadDone(c, answer)
    \/ \E c \in Callers : McDisconnectCall(c)
    \/ \E c \in Callers : CloseDone(c)

SpecLifecycle == FreshInit /\ [][LifecycleNext]_vars

\* connect and disconnect called one after the other
SequentialNext ==
    \/ McConnect("c1")
    \/ \E outcome \in SpawnOutcomes : SpawnDone("c1", outcome)
    \/ \E ok \in BOOLEAN : InitializeDone("c1", ok)
    \/ \E answer \in ListAnswers : LoadDone("c1", answer)
    \/ McDisconnectCall("c1")
    \/ CloseDone("c1")

SpecSequential == FreshInit /\ [][SequentialNext]_vars

\* the /execute relay while clients connect and disconnect
RelayNext ==
    \/ \E ws \in WS : Connect(ws)
    \/ \E ws \in WS : Disconnect(ws)
    \/ \E action \in RelayActions, arguments \in RelayArguments :
          ExecuteAction(action, arguments)
    \/ \E ok \in BOOLEAN : RelaySend(ok)
    \/ RelayDone

SpecRelay == FreshInit /\ [][RelayNext]_vars

\* the provider manager constructed under any environment
ProviderNext == pm.pc = "new" /\ \E env \in Envs : LoadFromEnv(env, NoModelEnv)

\* calls of the model client
LlmNext ==
    \/ llm.op = "none" /\ \E req \in Requests : ClientCall(req)
    \/ ResponseTaken

SpecLlm == FreshInit /\ [][LlmNext]_vars

\* a converted Vertex response whose single function call is processed
RoundTripRequests ==
    {Request("chat_with_tools", "vertex_ai", TRUE, "ok", "none", "ok",
             Body("good", TRUE, parts, "STOP")) :
        parts \in {<<part>> : part \in CallParts} \cup {<<TextPart, part>> : part \in CallParts}}

RoundTripNext ==
    \/ llm.op = "none" /\ \E req \in RoundTripRequests : ClientCall(req)
    \/ ProcessResponse
    \/ McpConnect(DefaultTools)
    \/ McpDisconnect
    \/ \E result \in {[t |-> "dict", success |-> "True", error |-> Absent]} : ToolReturns(result)
    \/ TakeResults
    \/ ResponseTaken

SpecRoundTrip == FreshInit /\ [][RoundTripNext]_vars

\* the chat log under logging and session summaries
StorageNext ==
    \/ \E session_id \in SessionIds, mode \in RowModes, fail \in LogFailures :
          LogChatMessage(session_id, mode, fail)
    \/ \E fail \in LogFailures, mode_query_fails \in BOOLEAN :
          GetRecentSessions(fail, mode_query_fails)

SpecStorage == FreshInit /\ [][StorageNext]_vars

\* constructions of the credential manager and of clients
ClientInitNext ==
    \/ \E provider \in ClientProviders : NewVertexAIAuth(provider)
    \/ \E provider \in ClientProviders : NewLLMClient(provider)

SpecClientInit == FreshInit /\ [][ClientInitNext]_vars

\* the environments the manager is followed from: the keys and models of two
\* providers and the custom model vary
ManagerEnvs ==
    {[NoEnv EXCEPT !.DEEPSEEK_API_KEY = k, !.LLM_API_KEY = c, !.LLM_BASE_URL = c,
                   !.LLM_MODEL = c] : k \in EnvValues, c \in {Absent, "v"}}
ManagerModelEnvs ==
    {[NoModelEnv EXCEPT !.OLLAMA_MODEL = a, !.DEEPSEEK_MODEL = b] :
        a \in EnvValues, b \in EnvValues}

\* the manager under add_provider, set_active, set_model, get_client and
\* /providers/select
ManagerNext ==
    \/ pm.pc = "new" /\ \E env \in ManagerEnvs, menv \in ManagerModelEnvs :
          LoadFromEnv(env, menv)
    \/ \E name \in ProviderNames, model \in ModelNames : AddProvider(name, model)
    \/ \E name \in ProviderNames : SetActive(name)
    \/ \E name \in ProviderNames, model \in ModelNames : SetModel(name, model)
    \/ GetClient
    \/ \E body \in SelectBodies : SelectProvider(body)

SpecManager == FreshInit /\ [][ManagerNext]_vars

SpecProvider == FreshInit /\ [][ProviderNext]_vars

\* /providers/select requests between the turns of one client
SelectEnvs == {[NoEnv EXCEPT !.DEEPSEEK_API_KEY = k] : k \in {Absent, "v"}}
SelectRequests == [provider : {None, "ollama", "deepseek", "nope"}, model : {None, "m2"}]
SelectOutcomes == {[kind |-> "text", raw |-> RawObjCall], [kind |-> "text", raw |-> RawText]}
SelectNext ==
    \/ pm.pc = "new" /\ \E env \in SelectEnvs : LoadFromEnv(env, NoModelEnv)
    \/ \E body \in SelectRequests : SelectProvider(body)
    \/ Connect("ws1")
    \/ Disconnect("ws1")
    \/ StartTurn("ws1", "u1", "command", FALSE)
    \/ \E outcome \in SelectOutcomes : FinishTurn("ws1", outcome)
    \/ Respond("ws1")
    \/ Act("ws1")
    \/ AwaitMessage("ws1")

SpecSelect == FreshInit /\ [][SelectNext]_vars

\* one VertexAIAuth used by one caller at a time
AuthSeqNext ==
    \/ \E c \in Callers, jwt_ok \in BOOLEAN : NoCallInFlight /\ GetAccessToken(c, jwt_ok)
    \/ \E c \in Callers, token \in Tokens, lifetime \in Lifetimes :
          ExchangeDone(c, token, lifetime)
    \/ \E c \in Callers : ExchangeFails(c)
    \/ \E c \in Callers : CallerResumes(c)
    \/ Tick

SpecAuthSeq == FreshInit /\ [][AuthSeqNext]_vars

\* one VertexAIAuth shared by turns that run concurrently
AuthNext ==
    \/ \E c \in Callers, jwt_ok \in BOOLEAN : GetAccessToken(c, jwt_ok)
    \/ \E c \in Callers, token \in Tokens, lifetime \in Lifetimes :
          ExchangeDone(c, token, lifetime)
    \/ \E c \in Callers : ExchangeFails(c)
    \/ \E c \in Callers : CallerResumes(c)
    \/ Tick

SpecAuth == FreshInit /\ [][AuthNext]_vars

\* ============================================================ chat claims
\* chat has returned for the message the connection is handling
Answered(ws) == turn[ws].outcome.kind # "pending"

LastN(seq, n) == IF Len(seq) > n THEN SubSeq(seq, Len(seq) - n + 1, Len(seq)) ELSE seq

\* C1: after every turn the stored history has at most 2 * max_history entries
\* and is exactly the most recent 2 * max_history entries appended, in order.
C1_HistoryBounded ==
    /\ Len(conversation_history) <= 2 * max_history
    /\ conversation_history = LastN(log, 2 * max_history)

C5_SessionsIsolated ==
    \A ws \in WS :
        \A i \in 1..Len(turn[ws].messages) :
            turn[ws].messages[i].sess \in WS => turn[ws].messages[i].sess = ws

\* C6: a command-mode turn sends the model the system instruction and the
\* current input only, and no step of the turn changes the stored history.
C6_CommandStateless ==
    /\ [](\A ws \in WS :
            (turn[ws].mode = "command" /\ turn[ws].outcome.kind # "noclient") =>
                /\ Len(turn[ws].messages) = 2
                /\ turn[ws].messages[1].role = "system"
                /\ turn[ws].messages[1].content \in {"COMMAND_PROMPT", "COMMAND_PROMPT_THINKING"}
                /\ turn[ws].messages[2].role = "user"
                /\ turn[ws].messages[2].content = turn[ws].user_input)
    /\ [][\A ws \in WS :
            (pc[ws] # pc'[ws] /\ (turn[ws].mode = "command" \/ turn'[ws].mode = "command"))
                => conversation_history' = conversation_history]_vars

\* a command-mode turn that got a JSON object back while history was stored
C6_Witness ==
    \E ws \in WS :
        /\ pc[ws] = "act"
        /\ turn[ws].mode = "command"
        /\ turn[ws].outcome = [kind |-> "text", raw |-> RawObjCall]
        /\ Len(conversation_history) > 0

\* C7: when the plain chat call returns text that is not valid JSON, the reply's
\* message is that raw text, its tool_call is None and nothing is raised.
C7_NonJsonIsMessage ==
    \A ws \in WS :
        (turn[ws].outcome.kind = "text" /\ ~json_loads(turn[ws].outcome.raw).ok) =>
            /\ ~reply[ws].raised
            /\ reply[ws].message = turn[ws].outcome.raw
            /\ reply[ws].tool_call = TCNone

C7_Witness ==
    \E ws \in WS :
        /\ pc[ws] = "done"
        /\ turn[ws].outcome = [kind |-> "text", raw |-> RawText]
        /\ outbox[ws] = <<Sent("chat_response", RawText, TCAbsent)>>

\* C8: when the model client raises, the reply is the fixed service-unavailable
\* message with no tool call, the turn leaves the stored history as it was, and
\* the connection stays open and gets its chat_response.
C8_ClientErrorIsUnavailable ==
    /\ [](\A ws \in WS :
            turn[ws].outcome.kind = "raise" =>
                /\ reply[ws] = ServiceUnavailable
                /\ pc[ws] \in {"respond", "done"}
                /\ \E i \in 1..Len(active_connections) : active_connections[i] = ws)
    /\ [][\A ws \in WS :
            (pc[ws] # pc'[ws] /\ (turn[ws].outcome.kind = "raise"
                                  \/ turn'[ws].outcome.kind = "raise"))
                => conversation_history' = conversation_history]_vars

\* a conversation-mode turn whose client raised has been answered to the client
C8_Witness ==
    \E ws \in WS :
        /\ pc[ws] = "done"
        /\ turn[ws].mode = "conversation"
        /\ turn[ws].outcome.kind = "raise"
        /\ outbox[ws] = <<Sent("chat_response", ServiceUnavailable.message, TCAbsent)>>

FoundValid(a) == a.s_token # None /\ a.s_now < a.s_expiry - ExpiryMargin

\* C10: used by one caller at a time, get_access_token starts a token exchange
\* only when no token is cached or the clock is at or past expiry - 60 s, and
\* never more than one; a call that returns within the validity window returns
\* the cached token, leaves the cache as it was and exchanges nothing; a call
\* that returns outside it has made exactly one exchange and cached the new
\* token with expiry = clock + returned lifetime.
C10_TokenCache ==
    \A c \in Callers :
        LET a == auth[c]
        IN  a.pc # "idle" =>
              /\ a.exch \in {0, 1}
              /\ a.exch = 1 => ~FoundValid(a)
              /\ (a.pc = "returned" /\ FoundValid(a)) =>
                    /\ a.exch = 0
                    /\ a.ret = a.s_token
                    /\ access_token = a.s_token
                    /\ token_expiry = a.s_expiry
              /\ (a.pc = "returned" /\ ~FoundValid(a)) =>
                    /\ a.exch = 1
                    /\ access_token = a.ret
                    /\ a.ret \in Tokens
                    /\ a.at >= a.s_now
                    /\ token_expiry = a.at + a.lifetime

\* a call that found a cached token past its expiry has renewed it
C10_Witness ==
    \E c \in Callers :
        /\ auth[c].pc = "returned"
        /\ auth[c].s_token # None
        /\ auth[c].s_now >= auth[c].s_expiry
        /\ auth[c].exch = 1
        /\ token_expiry = auth[c].at + auth[c].lifetime

C12_LastExchangeWins ==
    (\A c \in Callers : auth[c].pc = "returned" /\ auth[c].exch = 1) =>
        \E c \in Callers :
            /\ auth[c].last
            /\ access_token = auth[c].ret
            /\ token_expiry = auth[c].at + auth[c].lifetime
            /\ \A d \in Callers : auth[d].at <= auth[c].at /\ (d # c => ~auth[d].last)

\* two calls that both found no cached token have both exchanged, with
\* different answers, and the cache holds the later one
C12_Witness ==
    /\ \A c \in Callers :
          /\ auth[c].pc = "returned"
          /\ auth[c].exch = 1
          /\ auth[c].s_token = None
    /\ auth["c1"].ret # auth["c2"].ret
    /\ auth["c1"].lifetime # auth["c2"].lifetime
    /\ \E c \in Callers : auth[c].last /\ access_token = auth[c].ret

\* ===================================================== tool list and caches
\* positions of the tools of a list that get_tools_for_openai is to keep
Kept(tools) == {i \in 1..Len(tools) : tools[i].name \notin EXCLUDED_TOOLS_FOR_FC}

\* C13: an uncached get_tools_for_openai over a connected client returns one
\* entry per tool whose name is not excluded, in the client's order, with
\* function.name / description / parameters taken from the tool's name /
\* description / input_schema, and no entry with an excluded name;
\* get_tools_for_gemini returns one such entry for every tool.
C13_ToolFormats ==
    /\ (bcall.op = "openai" /\ bcall.read) =>
          LET tools == bcall.s_tools
              ret == bcall.ret
          IN  /\ Len(ret) = Cardinality(Kept(tools))
              /\ \A k \in 1..Len(ret) : ret[k].function.name \notin EXCLUDED_TOOLS_FOR_FC
              /\ \A i \in Kept(tools) :
                    LET k == Cardinality({j \in Kept(tools) : j <= i})
                    IN  /\ ret[k].type = "function"
                        /\ ret[k].function.name = tools[i].name
                        /\ ret[k].function.description = tools[i].description
                        /\ ret[k].function.parameters = tools[i].input_schema
    /\ (bcall.op = "gemini" /\ bcall.connected) =>
          LET tools == bcall.s_tools
              ret == bcall.ret
          IN  /\ Len(ret) = Len(tools)
              /\ \A i \in 1..Len(tools) :
                    /\ ret[i].name = tools[i].name
                    /\ ret[i].description = tools[i].description
                    /\ ret[i].parameters = tools[i].input_schema

\* an excluded tool listed before another tool has been left out
C13_Witness ==
    /\ bcall.op = "openai"
    /\ bcall.read
    /\ Len(bcall.s_tools) = 2
    /\ bcall.s_tools[1].name = "fly_to_location"
    /\ Len(bcall.ret) = 1
    /\ bcall.ret[1].function.name = "set_weather"

\* C14: since the last clear_cache the tool list has been built at most once;
\* get_tools_for_openai with a cached list returns that list without reading
\* the client and leaves the cache alone; with nothing cached and no
\* connection it returns the empty list and caches nothing; with nothing
\* cached and a connection it reads the client and caches what it returns.
C14_ToolListBuiltOnce ==
    /\ hist.builds <= 1
    /\ bcall.op = "openai" =>
          /\ bcall.s_cache.set =>
                /\ ~bcall.read
                /\ bcall.ret = bcall.s_cache.list
                /\ tools_cache = bcall.s_cache
          /\ (~bcall.s_cache.set /\ ~bcall.connected) =>
                /\ ~bcall.read
                /\ bcall.ret = <<>>
                /\ ~tools_cache.set
          /\ (~bcall.s_cache.set /\ bcall.connected) =>
                /\ bcall.read
                /\ tools_cache.set
                /\ tools_cache.list = bcall.ret
                /\ Len(bcall.ret) = Cardinality(Kept(bcall.s_tools))

\* the cached list has been returned while the client held no tools
C14_Witness ==
    /\ bcall.op = "openai"
    /\ bcall.s_cache.set
    /\ ~bcall.read
    /\ Len(bcall.ret) = 1
    /\ bcall.s_tools = <<>>
    /\ hist.builds = 1

\* C15: clear_cache leaves both the tool cache and every resource entry empty,
\* a value returned from a cache was stored since the last clear_cache, and a
\* tool list returned from the cache while a session is established was built
\* under that session.
C15_ClearedOnReconnect ==
    /\ bcall.op = "clear" => (~tools_cache.set /\ resources_cache = NoResources)
    /\ (rcall.pc = "returned" /\ rcall.found = "cache") => rcall.s_provided = rcall.ret
    /\ (bcall.op = "openai" /\ bcall.connected /\ ~bcall.read) => hist.under = "current"

\* C17: a get_resource(uri) call made after the provider returned a value for
\* uri, with no clear_cache since, returns that value without contacting the
\* provider; a call that found the provider disconnected or the content empty
\* returns None and leaves no cache entry for uri.
C17_ResourceCached ==
    rcall.pc = "returned" =>
        /\ (rcall.s_provided # Absent /\ ~rcall.cleared) =>
              /\ rcall.ret = rcall.s_provided
              /\ ~rcall.contacted
        /\ (rcall.found \in {"disconnected", "empty"} /\ rcall.s_provided = Absent) =>
              /\ rcall.ret = None
              /\ resources_cache[rcall.uri] = Absent

\* =============================================================== /execute
\* C19: an /execute request that found no connected client answers with an
\* error and has sent nothing; otherwise it has sent its action and arguments
\* exactly once to every client connected when it was made, and
\* clients_notified is the number of clients it was sent to.
C19_RelayNotifiesAll ==
    relay.pc = "returned" =>
        IF relay.count = 0
        THEN /\ relay.ret.success = "False"
             /\ relay.ret.error # Absent
             /\ relay.sent = <<>>
        ELSE /\ relay.ret.success = "True"
             /\ relay.ret.clients_notified = Len(relay.sent)
             /\ \A i \in 1..Len(relay.s_conns) :
                   Cardinality({k \in 1..Len(relay.sent) :
                                   relay.sent[k].ws = relay.s_conns[i]}) = 1
             /\ \A k \in 1..Len(relay.sent) :
                   /\ relay.sent[k].action = relay.action
                   /\ relay.sent[k].arguments = relay.arguments

\* ======================================================== provider choice
\* whether the environment enables the named provider
EnabledByEnv(env, name) ==
    CASE name = "custom" ->
            /\ env.LLM_API_KEY \notin {Absent, ""}
            /\ env.LLM_BASE_URL \notin {Absent, ""}
            /\ env.LLM_MODEL \notin {Absent, ""}
      [] name = "vertex_ai" ->
            \/ env.GOOGLE_APPLICATION_CREDENTIALS = "exists.json"
            \/ /\ env.VERTEX_CLIENT_EMAIL \notin {Absent, ""}
               /\ env.VERTEX_PRIVATE_KEY \notin {Absent, ""}
      [] name = "dashscope" -> env.DASHSCOPE_API_KEY \notin {Absent, ""}
      [] name = "siliconflow" -> env.SILICONFLOW_API_KEY \notin {Absent, ""}
      [] name = "deepseek" -> env.DEEPSEEK_API_KEY \notin {Absent, ""}
      [] name = "openai" -> env.OPENAI_API_KEY \notin {Absent, ""}
      [] name = "ollama" -> TRUE

\* the fixed order of the claim
FixedOrder ==
    <<"custom", "vertex_ai", "dashscope", "siliconflow", "deepseek", "openai", "ollama">>

\* C20: once the configuration is loaded, the active provider is the first one
\* of the fixed order that the environment enables, so ollama is active only
\* when the environment enables no other provider.
C20_FirstEnabledWins ==
    pm.pc = "loaded" =>
        /\ \E i \in 1..Len(FixedOrder) :
              /\ pm.active_provider = FixedOrder[i]
              /\ EnabledByEnv(pm.env, FixedOrder[i])
              /\ \A j \in 1..(i - 1) : ~EnabledByEnv(pm.env, FixedOrder[j])
        /\ pm.active_provider = "ollama" =>
              \A j \in 1..(Len(FixedOrder) - 1) : ~EnabledByEnv(pm.env, FixedOrder[j])

\* openai and deepseek are both enabled, custom has a key but no model, and the
\* credentials file is missing: deepseek is active
C20_Witness ==
    /\ pm.pc = "loaded"
    /\ pm.env.OPENAI_API_KEY = "v"
    /\ pm.env.DEEPSEEK_API_KEY = "v"
    /\ pm.env.LLM_API_KEY = "v"
    /\ pm.env.LLM_MODEL = ""
    /\ pm.env.GOOGLE_APPLICATION_CREDENTIALS = "missing.json"
    /\ pm.active_provider = "deepseek"

\* ============================================================ tool calls
\* C16: call_tool and execute_tool never raise; without a connection, or when
\* the session call fails, they return a mapping with success false and an
\* error message; otherwise the call reached the provider and what the
\* provider's text says about success and error is what they return.
C16_ToolCallsNeverRaise ==
    tcall.op # "none" =>
        /\ ~tcall.out.raised
        /\ (~tcall.connected \/ tcall.answer.kind = "raise") =>
              /\ tcall.out.value.t = "dict"
              /\ tcall.out.value.success = "False"
              /\ tcall.out.value.error # Absent
        /\ (tcall.connected /\ tcall.answer.kind # "raise") =>
              /\ tcall.arguments \in {"{}", "{x:1}"}
              /\ tcall.answer.text = TextErr =>
                    (tcall.out.value.success = "False" /\ tcall.out.value.error = "boom")
              /\ tcall.answer.text = TextOk =>
                    (tcall.out.value.success = "True" /\ tcall.out.value.x = "1")
              /\ tcall.answer.text \notin {TextErr, TextOk} =>
                    (tcall.out.value.success # "False" /\ tcall.out.value.error = Absent)

\* the session call of a connected client has failed under call_tool
C16_Witness ==
    /\ tcall.op = "call_tool"
    /\ tcall.connected
    /\ tcall.answer.kind = "raise"
    /\ tcall.out.value.success = "False"

\* C18: call_tool over a session that answers gives a mapping in every case:
\* the parsed value for a text part that is JSON, {result: text} for other
\* text, {success: true, result: None} for no content, and a mapping with a
\* result entry for a part that is no text or for several parts.
C18_AlwaysAMapping ==
    (tcall.op = "call_tool" /\ tcall.connected /\ tcall.answer.kind # "raise") =>
        /\ ~tcall.out.raised
        /\ tcall.out.value.t = "dict"
        /\ tcall.answer.kind = "empty" =>
              (tcall.out.value.success = "True" /\ tcall.out.value.result = None)
        /\ tcall.answer.text = TextRaw => tcall.out.value.result = TextRaw
        /\ tcall.answer.text = TextObj => tcall.out.value.x = "1"
        /\ tcall.answer.kind \in {"part", "parts"} => tcall.out.value.result # Absent

\* ======================================================= provider manager
\* the providers list_providers marks active
ActiveProviders(m) == {n \in m.providers : m.heap[m.record[n]].name = m.active_provider}

\* C21: after add_provider, set_active and set_model exactly one provider is
\* active and active_provider names a key of providers; set_active with an
\* unknown name raises and leaves the active provider as it was; set_model
\* stores a new record and leaves the previous record untouched, so a client
\* built earlier keeps the model it was built with.
C21_OneActiveAndReplaced ==
    pm.pc = "loaded" =>
        /\ pm.active_provider \in pm.providers
        /\ Cardinality(ActiveProviders(pm)) = 1
        /\ (pm.last.op = "set_active" /\ pm.last.old = 0) =>
              (pm.last.raised /\ pm.active_provider = pm.last.active)
        /\ (pm.last.op = "set_active" /\ pm.last.old # 0) =>
              (~pm.last.raised /\ pm.active_provider = pm.last.name)
        /\ (pm.last.op = "set_model" /\ ~pm.last.raised) =>
              /\ pm.record[pm.last.name] # pm.last.old
              /\ pm.heap[pm.record[pm.last.name]].model = pm.last.model
              /\ pm.active_provider = pm.last.active
        /\ pm.client.built => pm.heap[pm.client.provider].model = pm.client.model

\* a client was built for the active provider and set_model then gave that
\* provider another model
C21_Witness ==
    /\ pm.client.built
    /\ pm.last.op = "set_model"
    /\ ~pm.last.raised
    /\ pm.last.old = pm.client.provider
    /\ pm.last.model # pm.client.model
    /\ pm.last.name = pm.active_provider

\* C22: in every state of the loaded manager, also after set_active, set_model
\* and /providers/select, the active provider's model is not empty.
C22_ActiveModelNonEmpty ==
    pm.pc = "loaded" =>
        pm.heap[pm.record[pm.active_provider]].model \notin {"", None, Absent}

\* ===================================================== credential manager
JsonForm(provider) == provider.service_account_json # ""
DirectForm(provider) == provider.client_email # "" /\ provider.private_key # ""

\* C23: the credential manager is constructed only when exactly one of the two
\* credential forms is supplied; with neither or with both its construction
\* fails with a configuration error, and no client of a vertex_ai provider is
\* constructed without credentials.
C23_ExactlyOneForm ==
    /\ vauth.op = "VertexAIAuth" =>
          /\ ~vauth.out.raised => (JsonForm(vauth.provider) # DirectForm(vauth.provider))
          /\ (JsonForm(vauth.provider) = DirectForm(vauth.provider)) =>
                (vauth.out.raised /\ vauth.out.error = "ValueError")
    /\ (vauth.op = "LLMClient" /\ vauth.provider.type = "vertex_ai"
        /\ ~JsonForm(vauth.provider) /\ ~DirectForm(vauth.provider)) =>
          vauth.out.raised

\* ================================================================ storage
\* C24: in a session summary whose counts were read, the mode is command when
\* the session's command messages outnumber its conversation messages,
\* conversation when conversation messages outnumber command messages, and
\* conversation when the two counts are equal, both zero included.
C24_DominantMode ==
    db.last.op = "get_recent_sessions" =>
        \A summary \in db.last.out :
            LET cmd_count == ModeCount(db.rows, summary.session_id, "command", 1)
                conv_count == ModeCount(db.rows, summary.session_id, "conversation", 1)
            IN  summary.counted =>
                  /\ cmd_count > conv_count => summary.mode = "command"
                  /\ conv_count > cmd_count => summary.mode = "conversation"
                  /\ cmd_count = conv_count => summary.mode = "conversation"

\* C25: log_chat_message never raises, whether connecting, the insert or the
\* commit fails.
C25_LoggingNeverRaises ==
    db.last.op = "log_chat_message" => ~db.last.raised

\* ========================================================= result records
\* C28: process_tool_calls gives at most one record per tool call, and every
\* record is terminal: its status is success or error; a success record has
\* a result and no error, an error record has an error message and no
\* result; a record is a success exactly when the tool's result has no false
\* success entry and no error entry.
C28_TerminalRecords ==
    /\ Len(ptc.results) <= Len(ptc.calls)
    /\ \A j, k \in 1..Len(ptc.results) : j # k => ptc.results[j].id # ptc.results[k].id
    /\ \A k \in 1..Len(ptc.results) :
          LET rec == ptc.results[k]
          IN  /\ rec.status \in {"success", "error"}
              /\ rec.status = "success" =>
                    /\ rec.result # NoResult
                    /\ rec.error = None
                    /\ rec.result.success # "False"
                    /\ rec.result.error = Absent
              /\ rec.status = "error" =>
                    /\ rec.result = NoResult
                    /\ rec.error \notin {None, Absent}

\* ========================================================= history update
\* C29: when llm_client.chat has returned a JSON object or text that is not
\* JSON, a conversation-mode turn leaves the stored history ending with the
\* user's input followed by the assistant's reply text of that turn, and a
\* command-mode turn leaves the history as it was.
C29_HistoryEndsWithTurn ==
    [][\A ws \in WS :
        (/\ pc[ws] = "llm"
         /\ pc'[ws] = "respond"
         /\ turn'[ws].outcome.kind = "text"
         /\ json_loads(turn'[ws].outcome.raw).t # "list") =>
            IF turn'[ws].mode = "conversation"
            THEN LET n == Len(conversation_history')
                 IN  /\ n >= 2
                     /\ conversation_history'[n - 1].role = "user"
                     /\ conversation_history'[n - 1].content = turn'[ws].user_input
                     /\ conversation_history'[n - 1].sess = ws
                     /\ conversation_history'[n].role = "assistant"
                     /\ conversation_history'[n].content = reply'[ws].message
                     /\ conversation_history'[n].sess = ws
            ELSE conversation_history' = conversation_history]_vars

\* ============================================================ model client
\* C26: a model call that fails (HTTP error status, transport exception,
\* failure while obtaining the access token, malformed stored tool-call
\* arguments) raises the one generic wrapped error, which carries the status
\* or the context; no other exception type leaves the client.
C26_OneWrappedError ==
    (llm.op # "none" /\ llm.out.raised) =>
        /\ llm.out.type = "Exception"
        /\ llm.out.context # Absent

\* the function-call parts of the answered request
CallPartsAt(parts) == {i \in 1..Len(parts) : parts[i].kind = "functionCall"}

\* C30: in a converted Vertex response finish_reason is tool_calls whenever a
\* function-call part exists, whatever finishReason the candidate had, and
\* tool_calls is None when there is none; the ids of the converted calls are
\* pairwise distinct.
C30_ToolCallsSentinel ==
    (/\ llm.op = "chat_with_tools"
     /\ llm.req.type = "vertex_ai"
     /\ ~llm.out.raised
     /\ llm.req.body.candidates) =>
        LET parts == llm.req.body.parts
            resp == llm.out.value
        IN  /\ CallPartsAt(parts) # {} =>
                  /\ resp.finish_reason = "tool_calls"
                  /\ resp.tool_calls.set
                  /\ Len(resp.tool_calls.list) = Cardinality(CallPartsAt(parts))
            /\ CallPartsAt(parts) = {} =>
                  /\ ~resp.tool_calls.set
                  /\ resp.finish_reason = Get(llm.req.body.reason, "STOP")
            /\ \A j, k \in 1..Len(resp.tool_calls.list) :
                  j # k => resp.tool_calls.list[j].id # resp.tool_calls.list[k].id

\* a candidate that ended with MAX_TOKENS and holds two function calls
C30_Witness ==
    /\ llm.op = "chat_with_tools"
    /\ ~llm.out.raised
    /\ llm.req.body.reason = "MAX_TOKENS"
    /\ Cardinality(CallPartsAt(llm.req.body.parts)) = 2
    /\ llm.out.value.finish_reason = "tool_calls"

\* the single function-call part of the answered request
TheCallPart == llm.req.body.parts[CHOOSE i \in CallPartsAt(llm.req.body.parts) : TRUE]
SentArgs == IF TheCallPart.has_args THEN TheCallPart.args ELSE <<>>

\* C27: an arguments mapping that the Vertex conversion serialises and
\* process_tool_calls parses comes back as the original mapping, and the tool
\* is executed with exactly that mapping.
C27_ArgumentsRoundTrip ==
    (llm.op = "chat_with_tools" /\ ~llm.out.raised /\ llm.out.value.tool_calls.set) =>
        /\ \A k \in 1..Len(dispatched) :
              /\ dispatched[k].name = TheCallPart.name
              /\ dispatched[k].arguments = SentArgs
        /\ \A k \in 1..Len(ptc.results) :
              /\ ptc.results[k].name = TheCallPart.name
              /\ ptc.results[k].arguments = SentArgs

\* a call with two arguments, one of them null, reached the tool provider
C27_Witness ==
    /\ llm.op = "chat_with_tools"
    /\ Len(dispatched) = 1
    /\ dispatched[1].arguments = <<<<"y", "None">>, <<"x", "'s'">>>>
    /\ ptc.pc = "returned"

\* ====================================================== malformed tool_call
\* a tool_call that is no mapping, or a mapping without an action
Malformed(tc) == Truthy(tc) /\ (tc.t # "map" \/ tc.action = Absent)

\* C31: a reply whose tool_call is malformed never ends the client's session:
\* every step of handle_message for it leaves the connection open and in
\* active_connections, and the client has its chat_response once the
\* response step is over.
C31_MalformedKeepsSession ==
    [][\A ws \in WS :
        (/\ pc[ws] \in {"respond", "act"}
         /\ pc'[ws] # pc[ws]
         /\ Malformed(reply[ws].tool_call)) =>
            /\ pc'[ws] # "closed"
            /\ \E i \in 1..Len(active_connections') : active_connections'[i] = ws
            /\ \E i \in 1..Len(outbox'[ws]) : outbox'[ws][i].type = "chat_response"]_vars

\* C32: a reply text that is valid JSON but no JSON object degrades like a text
\* that is no JSON: the reply's message is the raw text, it has no tool call and
\* it is not the service-unavailable reply.
C32_NonObjectIsMessage ==
    \A ws \in WS :
        (/\ turn[ws].outcome.kind = "text"
         /\ json_loads(turn[ws].outcome.raw).ok
         /\ json_loads(turn[ws].outcome.raw).t # "dict") =>
            /\ reply[ws] # ServiceUnavailable
            /\ reply[ws].message = turn[ws].outcome.raw
            /\ ~Truthy(reply[ws].tool_call)

\* ------------------------------------------------- one reply per message
\* the messages of the given type in an outbox
OfType(out, type) == SelectSeq(out, LAMBDA m : m.type = type)

\* C36: the handling of a user_command ends with exactly one chat_response sent
\* to the client, followed by an action message exactly when the reply carries a
\* tool call, with the action and arguments of the chat_response's tool_call;
\* a ping is answered by exactly one pong and changes neither the history nor
\* the connection set.
C36_OneResponseThenAction ==
    [][\A ws \in WS :
        /\ (pc[ws] \in {"respond", "act"} /\ pc'[ws] \notin {"respond", "act"}) =>
              LET out == outbox'[ws]
                  tc == reply[ws].tool_call
              IN  /\ pc'[ws] = "done"
                  /\ Len(OfType(out, "chat_response")) = 1
                  /\ out[1].type = "chat_response"
                  /\ IF Truthy(tc)
                     THEN /\ Len(out) = 2
                          /\ out[2].type = "action"
                          /\ out[2].tool_call.action = out[1].tool_call.action
                          /\ out[2].tool_call.arguments = out[1].tool_call.arguments
                     ELSE Len(out) = 1
        /\ (pc[ws] = "idle" /\ pc'[ws] = "done") =>
              /\ outbox'[ws] = <<Sent("pong", Absent, TCAbsent)>>
              /\ conversation_history' = conversation_history
              /\ active_connections' = active_connections]_vars

\* ================================================================ broadcast
\* the action messages of the broadcast that reached ws
SentTo(r, ws) == {k \in 1..Len(r.sent) : r.sent[k].ws = ws}

\* C33: when a broadcast has returned, every client that was connected when it
\* began and stayed connected until its end (and whose send did not raise) has
\* received the action exactly once, whatever connects and disconnects happened
\* while the loop was suspended on a send.
C33_StayersReceiveOnce ==
    relay.pc = "returned" =>
        \A i \in 1..Len(relay.s_conns) :
            relay.s_conns[i] \notin relay.left \cup relay.failed =>
                Cardinality(SentTo(relay, relay.s_conns[i])) = 1

\* ========================================================= /providers/select
\* the last manager operation was a /providers/select that succeeded with a
\* provider and a model
SelectedOk(m) ==
    /\ m.last.op = "select"
    /\ ~m.last.raised
    /\ Given(m.last.name)
    /\ Given(m.last.model)

\* C37: a /providers/select that fails for an unknown provider name leaves the
\* active provider, every provider's model and the assistant's model client
\* unchanged; one that succeeds with a provider and a model leaves the
\* assistant with a client built for that provider and that model, and a turn
\* started after it goes to that client.
C37_SelectTakesEffect ==
    [][/\ (pm'.nops = pm.nops + 1 /\ pm'.last.op = "select" /\ pm'.last.raised) =>
              /\ pm'.last.name \notin pm.providers
              /\ pm'.active_provider = pm.active_provider
              /\ pm'.heap = pm.heap
              /\ pm'.record = pm.record
              /\ pm'.client = pm.client
              /\ llm_client' = llm_client
       /\ (pm'.nops = pm.nops + 1 /\ SelectedOk(pm')) =>
              /\ pm'.client.built
              /\ pm'.client.provider = pm'.record[pm'.last.name]
              /\ pm'.heap[pm'.client.provider] =
                    [name |-> pm'.last.name, model |-> pm'.last.model]
              /\ llm_client' # None
       /\ \A ws \in WS :
              (SelectedOk(pm) /\ pc[ws] = "idle" /\ pc'[ws] \in {"llm", "respond"}) =>
                  pc'[ws] = "llm"]_vars

\* ===================================================== cache and connection
\* C38: a tool list cached by get_tools_for_openai stays cached over every
\* step but clear_cache, disconnects and reconnects included, and
\* get_tools_for_openai returns it whatever the client's connection and tools
\* are; get_tools_for_gemini returns the list built from the client's current
\* tools, and the empty list while disconnected.
C38_CacheOutlivesConnection ==
    /\ [][(tools_cache.set /\ bcall'.op # "clear") => tools_cache' = tools_cache]_vars
    /\ []((bcall.op = "openai" /\ bcall.s_cache.set) => bcall.ret = bcall.s_cache.list)
    /\ [](bcall.op = "gemini" =>
             bcall.ret = IF bcall.connected
                         THEN [i \in 1..Len(bcall.s_tools) |-> GeminiTool(bcall.s_tools[i])]
                         ELSE <<>>)

\* after a reconnect with another tool set get_tools_for_openai has returned
\* the list cached under the earlier session
C38_Witness ==
    /\ bcall.op = "openai"
    /\ bcall.connected
    /\ hist.under = "earlier"
    /\ bcall.ret # <<>>
    /\ bcall.ret # BuildOpenaiTools(bcall.s_tools, 1, <<>>)

\* ======================================================= MCPClient lifecycle
\* the subprocess or session i is the client's current session or the
\* subprocess that session talks to
Current(m, i) == m.session # 0 /\ (i = m.session \/ i = m.res[m.session].proc)

\* C34: whenever no connect or disconnect call is in progress, every
\* subprocess and session a connect opened is the client's current session
\* (or its subprocess) or has been closed, whatever the interleaving of the
\* calls was.
C34_OneOpenSession ==
    (\A c \in Callers : mc.task[c].pc = "idle") =>
        \A i \in 1..Len(mc.res) : mc.res[i].open => Current(mc, i)

\* no call is in progress on the client
Quiet(m) == \A c \in Callers : m.task[c].pc = "idle"

\* the state disconnect ends in
Disconnected(m) ==
    /\ m.session = 0
    /\ m.exit_stack = 0
    /\ m.tools = <<>>
    /\ ~m.connected_flag
    /\ ~connected(m)

\* C35: for calls made one after the other, connected is true only while an
\* open session exists; a connect in which spawn, session setup or initialize
\* failed has returned False and left session None, tools empty and connected
\* false, with everything it opened closed; a disconnect, from whatever state,
\* has left that same state; a connect on a connected client has returned
\* True and opened nothing.
C35_SequentialLifecycle ==
    /\ connected(mc) => (mc.session # 0 /\ mc.res[mc.session].open)
    /\ (Quiet(mc) /\ mc.last.op = "connect") =>
          /\ mc.last.failed # Absent <=> mc.last.ret = "False"
          /\ mc.last.ret = "False" =>
                /\ Disconnected(mc)
                /\ \A i \in 1..Len(mc.res) : ~mc.res[i].open
          /\ mc.last.ret = "True" => connected(mc)
          /\ mc.last.was_connected =>
                /\ mc.last.ret = "True"
                /\ Len(mc.res) = mc.last.opened
    /\ (Quiet(mc) /\ mc.last.op = "disconnect") =>
          /\ Disconnected(mc)
          /\ \A i \in 1..Len(mc.res) : ~mc.res[i].open

\* a connect whose initialize failed has returned, after an earlier session of
\* the client had been opened and closed
C35_Witness ==
    /\ Quiet(mc)
    /\ mc.last.op = "connect"
    /\ mc.last.failed = "initialize"
    /\ mc.last.ret = "False"
    /\ mc.last.opened > 0

====
